---- MODULE Spec2Model ----
(***************************************************************************)
(* State-machine model of react-guardian: the RecoveryEngine               *)
(* (src/src/RecoveryEngine.ts), the Reporter (src/src/Reporter.ts),        *)
(* AutoCorrect (src/src/AutoCorrect.ts), the LayoutWatcher                 *)
(* (src/src/LayoutWatcher.ts) and the state the GuardianProvider keeps.    *)
(*                                                                         *)
(* JavaScript runs the objects on one thread: every action below is the    *)
(* synchronous run of a handler up to its next await (or to its end), and  *)
(* an await is the only place where other handlers interleave.             *)
(***************************************************************************)
EXTENDS Integers, Sequences, FiniteSets, TLC

\* ------------------------------------------------------------------ bounds
MaxCalls == 2            \* execute calls issued by the host
MaxConfigRetries == 2    \* largest config.maxRetries tried
MaxActionCount == 5      \* largest action.retryCount tried
MaxReportCalls == 3      \* report bursts issued by the host
MaxFlushes == 3          \* requests the Reporter starts
MaxSaves == 6            \* saveContentSnapshot calls
MaxChecks == 1           \* white-page checks
MaxObservers == 1        \* observers of one kind created by start()
MaxCallbacks == 2        \* observer callbacks run
MaxFragments == 2        \* fragments in an error message
MaxReports == 102        \* errors and anomalies reported to the provider
MaxSelectors == 2        \* selectors in a configured selector list
MaxSnapshots == 2        \* snapshots in the history when the page goes white
MaxTimeouts == 4         \* timeouts a SmartBoundary sets
MaxPending == 4          \* pending timeouts of reloadComponent kept

\* --------------------------------------------------------------- variables
VARIABLES
  \* RecoveryEngine
  recEnabled,        \* config.enabled
  maxRetries,        \* config.maxRetries
  fallbackComponent, \* config.fallbackComponent is set
  retryCount,        \* private retryCount
  isRecovering,      \* private isRecovering (FALSE = Idle, TRUE = Recovering)
  pc,                \* per execute call: "none", "awaiting" (suspended at the
                     \* await of performRecovery), "done"
  result,            \* per call: "-", "true", "false", "threw"
  act,               \* per call: the RecoveryAction it was given
  attempts,          \* per call: number of performRecovery invocations
  delays,            \* per call: the delays (ms) handleRetry waited, in order
  onRecoveryLog      \* the calls config.onRecovery was invoked for, in order

recVars == <<recEnabled, maxRetries, fallbackComponent, retryCount,
             isRecovering, pc, result, act, attempts, delays, onRecoveryLog>>

VARIABLES
  \* Reporter
  repEnabled,        \* config.enabled
  endpoint,          \* config.endpoint is set
  customReporter,    \* config.customReporter is set
  batchSize,         \* config.batchSize (0 = falsy, read with || 10)
  queue,             \* private queue: the records, by report number
  flushTimer,        \* the interval timer is set
  reported,          \* number of report calls so far; record r is call r
  reportCalls,       \* number of report bursts so far
  inflight,          \* the batches whose fetch is pending, in start order
  delivered,         \* the batches the endpoint answered ok, in order
  customSeen,        \* the records handed to customReporter, in order
  requests,          \* number of fetch calls issued
  failedDeliveries,  \* number of fetches that rejected or answered not ok
  lastFailed,        \* the batch of the last failed fetch and the queue
                     \* it met: [batch, queueBefore]
  lost               \* records of failed batches that were not put back

repVars == <<repEnabled, endpoint, customReporter, batchSize, queue, flushTimer,
             reported, reportCalls, inflight, delivered, customSeen, requests,
             failedDeliveries, lastFailed, lost>>

VARIABLES
  \* AutoCorrect
  whitePageEnabled,        \* config.whitePageDetection.enabled
  isRunning,               \* private isRunning
  whitePageCheckInterval,  \* the interval timer is set
  contentHistory,          \* private contentHistory
  lastContentSnapshot,     \* private lastContentSnapshot
  body,                    \* document.body.innerHTML
  elementHTML,             \* innerHTML of the element the healing acts on
  saveLog,                 \* every snapshot saved so far, in save order
  pops,                    \* number of snapshots restoreFromHistory removed
  autoCorrectLog,          \* the action types given to onAutoCorrect
  autoCorrectSuccess,      \* the success fields of those actions
  reloads,                 \* number of window.location.reload() calls
  reloadTimers,            \* pending 2000 ms timeouts of handleEmptyPage
  checks                   \* number of white-page checks run

acVars == <<whitePageEnabled, isRunning, whitePageCheckInterval, contentHistory,
            lastContentSnapshot, body, elementHTML, saveLog, pops,
            autoCorrectLog, autoCorrectSuccess, reloads, reloadTimers, checks>>

VARIABLES
  \* AutoCorrect, the observers and timeouts of its sub-checks
  pageBreakEnabled,        \* config.pageBreakDetection.enabled
  visualHealingEnabled,    \* config.visualHealing.enabled
  strategies,              \* config.visualHealing.strategies
  mutationObservers,       \* MutationObservers of startPageBreakDetection observing
  resizeObservers,         \* ResizeObservers of startVisualHealing observing
  displayTimers,           \* pending 100 ms timeouts of reloadComponent
  callbackLog              \* every Auto-Correct callback run so far, in order

obsVars == <<pageBreakEnabled, visualHealingEnabled, strategies,
             mutationObservers, resizeObservers, displayTimers, callbackLog>>

VARIABLES
  \* LayoutWatcher
  watcherRunning,          \* private isRunning
  observer,                \* private observer is set
  resizeObserver,          \* private resizeObserver is set
  intervalId,              \* private intervalId is set
  liveMutationObservers,   \* MutationObservers still observing document.body
  liveResizeObservers,     \* ResizeObservers still holding targets
  liveTimers,              \* interval timers not cleared
  baselineMetrics,         \* private baselineMetrics, NoRect for no entry
  thresholds,              \* config.thresholds
  attached,                \* the elements in the document that match a selector
  observed,                \* the targets of the resize observer
  pendingAdded,            \* added nodes the mutation observer has yet to deliver
  lastOp,                  \* what ran last: start, a callback, or the host
  lastChecks               \* the element checks of that callback, in order

lwVars == <<watcherRunning, observer, resizeObserver, intervalId,
            liveMutationObservers, liveResizeObservers, liveTimers,
            baselineMetrics, thresholds, attached, observed, pendingAdded,
            lastOp, lastChecks>>

VARIABLES
  \* Pure functions of the engines, applied to one input at a time
  fnInput,                 \* the arguments of the last application
  fnOutput                 \* its result

fnVars == <<fnInput, fnOutput>>

VARIABLES
  \* GuardianProvider
  state,                   \* the GuardianState held by useReducer
  errorsReported,          \* number of reportError calls so far; the record
                           \* of call n is n
  anomaliesReported,       \* number of anomalies reported so far, likewise
  instances,               \* per engine class, the instances the provider's
                           \* body has constructed so far
  flushTimers              \* live flush timers of the Reporters it constructed

gpVars == <<state, errorsReported, anomaliesReported, instances, flushTimers>>

VARIABLES
  \* AutoCorrect, the page-break scan
  pageBreakSelectors,      \* config.pageBreakDetection.selectors
  lastScan,                \* the last page-break scan: the boxes it measured,
                           \* what it did to which element, in order, and
                           \* whether an exception ended it
  healedStyle              \* per element, the style properties the
                           \* visual-healing checks have set on it

pbVars == <<pageBreakSelectors, lastScan, healedStyle>>

VARIABLES
  \* AutoCorrect, a matched element and the mutation records and timeouts
  \* the page-break correction itself produces
  elementDisplay,          \* its inline style.display: "", "none" or "block"
  elementKind,             \* "tall", or short when displayed: "empty"
                           \* (no content), "fixed" (height set by a stylesheet)
  mutationRecords,         \* number of MutationObservers with records queued
  displayTimeouts,         \* pending 100 ms timeouts of reloadComponent, in
                           \* the order they were set
  hostChanged              \* the host has made its one change of the DOM

loopVars == <<elementDisplay, elementKind, mutationRecords, displayTimeouts,
              hostChanged>>

VARIABLES
  \* SmartBoundary
  mounted,                 \* the component is mounted
  hasError,                \* state.hasError: the fallback is shown
  boundaryRetryCount,      \* state.retryCount
  retryTimeout,            \* the timeout id held in this.retryTimeout, 0: none
  liveTimeouts,            \* the pending timeouts: id and delay in ms
  timeoutsSet,             \* number of timeouts set so far (the last id)
  autoResets,              \* scheduled resets that took the fallback down
                           \* since the last manual retry or change of
                           \* children
  firedAtMaximum,          \* a scheduled reset took the fallback down while
                           \* retryCount was at the maximum
  firedUnmounted           \* a scheduled reset ran after unmount

sbVars == <<mounted, hasError, boundaryRetryCount, retryTimeout, liveTimeouts,
            timeoutsSet, autoResets, firedAtMaximum, firedUnmounted>>

vars == <<recVars, repVars, acVars, obsVars, lwVars, fnVars, gpVars, pbVars,
          loopVars, sbVars>>

Min(a, b) == IF a < b THEN a ELSE b

\* ======================================================= GuardianProvider
\* The provider keeps the last BufferLimit errors and anomalies.
BufferLimit == 100

\* A record that is not there (lastError, lastAnomaly and lastAutoCorrect
\* are undefined in initialState).
NoRecord == 0

initialState ==
  [errorCount |-> 0, anomalyCount |-> 0, isRecovering |-> FALSE,
   lastError |-> NoRecord, lastAnomaly |-> NoRecord,
   errors |-> <<>>, anomalies |-> <<>>,
   autoCorrectCount |-> 0, lastAutoCorrect |-> NoRecord]

\* q.slice(-k): the last k entries of q, all of q when it is shorter.
SliceLast(q, k) == SubSeq(q, IF Len(q) > k THEN Len(q) - k + 1 ELSE 1, Len(q))

guardianReducerKeepsOneMore(s, action) ==
  CASE action.type = "REPORT_ERROR" ->
         [s EXCEPT !.errorCount = @ + 1, !.lastError = action.payload,
                   !.errors = Append(SliceLast(@, BufferLimit), action.payload)]
    [] action.type = "REPORT_ANOMALY" ->
         [s EXCEPT !.anomalyCount = @ + 1, !.lastAnomaly = action.payload,
                   !.anomalies = Append(SliceLast(@, BufferLimit), action.payload)]
    [] action.type = "START_RECOVERY" -> [s EXCEPT !.isRecovering = TRUE]
    [] action.type = "END_RECOVERY" -> [s EXCEPT !.isRecovering = FALSE]
    [] action.type = "AUTO_CORRECT" ->
         [s EXCEPT !.autoCorrectCount = @ + 1, !.lastAutoCorrect = action.payload]
    [] action.type = "RESET_STATE" -> initialState
    [] OTHER -> s

\* guardianReducer(state, action)
guardianReducer(s, action) ==
  CASE action.type = "REPORT_ERROR" ->
         [s EXCEPT !.errorCount = @ + 1, !.lastError = action.payload,
                   !.errors = Append(SliceLast(@, BufferLimit - 1), action.payload)]
    [] action.type = "REPORT_ANOMALY" ->
         [s EXCEPT !.anomalyCount = @ + 1, !.lastAnomaly = action.payload,
                   !.anomalies = Append(SliceLast(@, BufferLimit - 1), action.payload)]
    [] action.type = "START_RECOVERY" -> [s EXCEPT !.isRecovering = TRUE]
    [] action.type = "END_RECOVERY" -> [s EXCEPT !.isRecovering = FALSE]
    [] action.type = "AUTO_CORRECT" ->
         [s EXCEPT !.autoCorrectCount = @ + 1, !.lastAutoCorrect = action.payload]
    [] action.type = "RESET_STATE" -> initialState
    [] OTHER -> s

\* The services the body of GuardianProvider constructs.
Engines == {"Reporter", "LayoutWatcher", "RecoveryEngine", "AutoCorrect"}

\* One run of the body of GuardianProvider: one more instance of every
\* service; the constructor of an enabled Reporter starts its flush timer,
\* which only Reporter.stop() would clear, and the provider never calls it.
RenderProvider ==
  /\ instances' = [e \in Engines |-> instances[e] + 1]
  /\ flushTimers' = IF repEnabled THEN flushTimers + 1 ELSE flushTimers

\* A dispatch gives the reducer a new state object, so React runs the body
\* again; without a dispatch it does not.
RenderAfter(dispatched) ==
  IF dispatched THEN RenderProvider ELSE UNCHANGED <<instances, flushTimers>>

\* After mounting: the body has run once.
InitGuardianProvider ==
  /\ state = initialState
  /\ errorsReported = 0
  /\ anomaliesReported = 0
  /\ instances = [e \in Engines |-> 1]
  /\ flushTimers = IF repEnabled THEN 1 ELSE 0

\* reportError(error): the enhanced error is dispatched as REPORT_ERROR.
\* dispatch queues the reducer, and React applies the queued reducers in
\* dispatch order before the next render reads the state.
ReportError ==
  /\ errorsReported + anomaliesReported < MaxReports
  /\ errorsReported' = errorsReported + 1
  /\ state' = guardianReducer(state, [type |-> "REPORT_ERROR",
                                      payload |-> errorsReported'])
  /\ RenderAfter(TRUE)
  /\ UNCHANGED anomaliesReported
  /\ UNCHANGED <<recVars, repVars, acVars, obsVars, lwVars, fnVars,
                 pbVars, loopVars, sbVars>>

\* reportAnomaly(anomaly), and the onAnomaly the provider hands to its
\* LayoutWatcher: the anomaly is dispatched as REPORT_ANOMALY.
ReportAnomalyToProvider ==
  /\ errorsReported + anomaliesReported < MaxReports
  /\ anomaliesReported' = anomaliesReported + 1
  /\ state' = guardianReducer(state, [type |-> "REPORT_ANOMALY",
                                      payload |-> anomaliesReported'])
  /\ RenderAfter(TRUE)
  /\ UNCHANGED errorsReported
  /\ UNCHANGED <<recVars, repVars, acVars, obsVars, lwVars, fnVars,
                 pbVars, loopVars, sbVars>>

NextGuardianProvider ==
  \/ ReportError
  \/ ReportAnomalyToProvider

\* The onAutoCorrect the provider hands to its AutoCorrect dispatches
\* AUTO_CORRECT for every action reported; the n-th action reported is n.
RECURSIVE DispatchAutoCorrect(_, _, _)
DispatchAutoCorrect(s, sent, upTo) ==
  IF sent >= upTo THEN s
  ELSE DispatchAutoCorrect(
         guardianReducer(s, [type |-> "AUTO_CORRECT", payload |-> sent + 1]),
         sent + 1, upTo)

\* The elements of the document.
Elements == {"e1", "e2"}
\* Document order, the order querySelectorAll returns matches in.
ElementOrder == <<"e1", "e2">>

\* The onRecovery the provider hands to its RecoveryEngine dispatches
\* START_RECOVERY before it calls the host's onRecovery; called tells
\* whether the step called it.  No handler dispatches END_RECOVERY.
ProviderOnRecovery(called) ==
  /\ state' = IF called THEN guardianReducer(state, [type |-> "START_RECOVERY"])
                        ELSE state
  /\ RenderAfter(called)
  /\ UNCHANGED <<errorsReported, anomaliesReported>>

\* ========================================================= RecoveryEngine
Calls == 1..MaxCalls

NoAction == [strategy |-> "none", maxRetries |-> 0, retryCount |-> 0,
             fallbackComponent |-> FALSE, customAction |-> "absent"]

\* The RecoveryAction values the host passes.  maxRetries = 0 and
\* retryCount = 0 stand for an absent field (the code reads both with || ).
\* strategy "unknown" is a tag outside the union; strategy "null" is a call
\* whose action is null at run time, so that performRecovery rejects.
RetryActions ==
  { [NoAction EXCEPT !.strategy = "retry", !.maxRetries = m, !.retryCount = n] :
      m \in {0, MaxActionCount},
      n \in {0, 1, MaxActionCount - 1, MaxActionCount} }
FallbackActions ==
  { [NoAction EXCEPT !.strategy = "fallback", !.fallbackComponent = f] :
      f \in BOOLEAN }
CustomActions ==
  { [NoAction EXCEPT !.strategy = "custom", !.customAction = k] :
      k \in {"absent", "resolves", "throws"} }
OtherActions ==
  { [NoAction EXCEPT !.strategy = s] : s \in {"reload", "redirect", "unknown", "null"} }
Actions == RetryActions \cup FallbackActions \cup CustomActions \cup OtherActions

HandleRetryDoubled(action) ==
  LET max == IF action.maxRetries # 0 THEN action.maxRetries ELSE maxRetries
      n   == action.retryCount
  IN  IF n >= max
        THEN [outcome |-> "false", waited |-> <<>>]
        ELSE [outcome |-> "true", waited |-> <<Min(1000 * (2 ^ (n + 1)), 10000)>>]

\* handleRetry: the outcome and the delay it waited.
HandleRetry(action) ==
  LET max == IF action.maxRetries # 0 THEN action.maxRetries ELSE maxRetries
      n   == action.retryCount
  IN  IF n >= max
        THEN [outcome |-> "false", waited |-> <<>>]
        ELSE [outcome |-> "true", waited |-> <<Min(1000 * (2 ^ n), 10000)>>]

HandleFallback(action) ==
  IF action.fallbackComponent THEN [outcome |-> "true", waited |-> <<>>]
  ELSE IF fallbackComponent THEN [outcome |-> "true", waited |-> <<>>]
  ELSE [outcome |-> "false", waited |-> <<>>]

HandleCustomPropagates(action) ==
  IF action.customAction = "resolves" THEN [outcome |-> "true", waited |-> <<>>]
  ELSE IF action.customAction = "throws"
    THEN [outcome |-> "threw", waited |-> <<>>]
  ELSE [outcome |-> "false", waited |-> <<>>]

\* handleCustom: true when the procedure completes; a missing procedure
\* and a procedure that throws or rejects (caught at line 162) give false.
HandleCustom(action) ==
  IF action.customAction = "resolves" THEN [outcome |-> "true", waited |-> <<>>]
  ELSE [outcome |-> "false", waited |-> <<>>]

\* performRecovery: dispatch on the strategy tag.
PerformRecovery(action) ==
  CASE action.strategy = "retry"    -> HandleRetry(action)
    [] action.strategy = "fallback" -> HandleFallback(action)
    [] action.strategy = "reload"   -> [outcome |-> "true", waited |-> <<>>]
    [] action.strategy = "redirect" -> [outcome |-> "true", waited |-> <<>>]
    [] action.strategy = "custom"   -> HandleCustom(action)
    [] action.strategy = "null"     -> [outcome |-> "threw", waited |-> <<>>]
    [] OTHER                        -> [outcome |-> "false", waited |-> <<>>]

ExecuteRejectsOnlyDisabled(recovering) == ~recEnabled

\* The guard at the top of execute.
ExecuteRejects(recovering) == ~recEnabled \/ recovering

InitRecovery ==
  /\ recEnabled \in BOOLEAN
  /\ maxRetries \in 0..MaxConfigRetries
  /\ fallbackComponent \in BOOLEAN
  /\ retryCount = 0
  /\ isRecovering = FALSE
  /\ pc = [c \in Calls |-> "none"]
  /\ result = [c \in Calls |-> "-"]
  /\ act = [c \in Calls |-> NoAction]
  /\ attempts = [c \in Calls |-> 0]
  /\ delays = [c \in Calls |-> <<>>]
  /\ onRecoveryLog = <<>>

InitRecoveryDefault ==
  /\ InitRecovery
  /\ recEnabled = TRUE /\ maxRetries = 0 /\ fallbackComponent = FALSE

ExecuteStrategyBeforeCallback(c, action, callbackThrows) ==
  /\ pc[c] = "none"
  /\ \A d \in Calls : d < c => pc[d] # "none"   \* calls are numbered in issue order
  /\ act' = [act EXCEPT ![c] = action]
  /\ UNCHANGED <<recEnabled, maxRetries, fallbackComponent, retryCount, delays>>
  /\ UNCHANGED <<repVars, acVars, obsVars, lwVars, fnVars, pbVars, loopVars, sbVars>>
  /\ ProviderOnRecovery(~ExecuteRejects(isRecovering))
  /\ IF ExecuteRejects(isRecovering)
       THEN /\ pc' = [pc EXCEPT ![c] = "done"]
            /\ result' = [result EXCEPT ![c] = "false"]
            /\ UNCHANGED <<isRecovering, attempts, onRecoveryLog>>
       ELSE /\ isRecovering' = TRUE
            /\ onRecoveryLog' = Append(onRecoveryLog, c)
            /\ IF callbackThrows
                 THEN /\ pc' = [pc EXCEPT ![c] = "done"]
                      /\ result' = [result EXCEPT ![c] = "threw"]
                      /\ attempts' = [attempts EXCEPT ![c] = @ + 1]
                 ELSE /\ pc' = [pc EXCEPT ![c] = "awaiting"]
                      /\ attempts' = [attempts EXCEPT ![c] = @ + 1]
                      /\ UNCHANGED result

\* execute(action), up to the await of performRecovery.  onRecovery is the
\* host's callback and may throw; it is called outside the try block.
Execute(c, action, callbackThrows) ==
  /\ pc[c] = "none"
  /\ \A d \in Calls : d < c => pc[d] # "none"   \* calls are numbered in issue order
  /\ act' = [act EXCEPT ![c] = action]
  /\ UNCHANGED <<recEnabled, maxRetries, fallbackComponent, retryCount, delays>>
  /\ UNCHANGED <<repVars, acVars, obsVars, lwVars, fnVars, pbVars, loopVars, sbVars>>
  /\ ProviderOnRecovery(~ExecuteRejects(isRecovering))
  /\ IF ExecuteRejects(isRecovering)
       THEN /\ pc' = [pc EXCEPT ![c] = "done"]
            /\ result' = [result EXCEPT ![c] = "false"]
            /\ UNCHANGED <<isRecovering, attempts, onRecoveryLog>>
       ELSE /\ isRecovering' = TRUE
            /\ onRecoveryLog' = Append(onRecoveryLog, c)
            /\ IF callbackThrows
                 THEN /\ pc' = [pc EXCEPT ![c] = "done"]
                      /\ result' = [result EXCEPT ![c] = "threw"]
                      /\ UNCHANGED attempts
                 ELSE /\ pc' = [pc EXCEPT ![c] = "awaiting"]
                      /\ attempts' = [attempts EXCEPT ![c] = @ + 1]
                      /\ UNCHANGED result

RecoverySucceededStaysRecovering(c) ==
  /\ retryCount' = 0
  /\ UNCHANGED isRecovering
  /\ pc' = [pc EXCEPT ![c] = "done"]
  /\ result' = [result EXCEPT ![c] = "true"]
  /\ UNCHANGED <<attempts, onRecoveryLog>>

\* execute after the await, success branch: reset the counter, go Idle.
RecoverySucceeded(c) ==
  /\ retryCount' = 0
  /\ isRecovering' = FALSE
  /\ pc' = [pc EXCEPT ![c] = "done"]
  /\ result' = [result EXCEPT ![c] = "true"]
  /\ UNCHANGED <<attempts, onRecoveryLog>>

\* execute after the await, catch block: performRecovery rejected.
RecoveryThrew(c) ==
  /\ isRecovering' = FALSE
  /\ pc' = [pc EXCEPT ![c] = "done"]
  /\ result' = [result EXCEPT ![c] = "false"]
  /\ UNCHANGED <<retryCount, attempts, onRecoveryLog>>

RecoveryFailedCountsAtMaximum(c) ==
  IF retryCount <= maxRetries
    THEN /\ retryCount' = retryCount + 1
         /\ IF ExecuteRejects(isRecovering)
              THEN /\ pc' = [pc EXCEPT ![c] = "done"]
                   /\ result' = [result EXCEPT ![c] = "false"]
                   /\ UNCHANGED <<isRecovering, attempts, onRecoveryLog>>
              ELSE /\ isRecovering' = TRUE
                   /\ onRecoveryLog' = Append(onRecoveryLog, c)
                   /\ attempts' = [attempts EXCEPT ![c] = @ + 1]
                   /\ UNCHANGED <<pc, result>>
    ELSE /\ isRecovering' = FALSE
         /\ pc' = [pc EXCEPT ![c] = "done"]
         /\ result' = [result EXCEPT ![c] = "false"]
         /\ UNCHANGED <<retryCount, attempts, onRecoveryLog>>

\* execute after the await, failure branch.  The self-retry is the nested
\* call this.execute(action): it passes through the guard of execute again,
\* with isRecovering as the outer call left it.
RecoveryFailed(c) ==
  IF retryCount < maxRetries
    THEN /\ retryCount' = retryCount + 1
         /\ IF ExecuteRejects(isRecovering)
              THEN /\ pc' = [pc EXCEPT ![c] = "done"]
                   /\ result' = [result EXCEPT ![c] = "false"]
                   /\ UNCHANGED <<isRecovering, attempts, onRecoveryLog>>
              ELSE /\ isRecovering' = TRUE
                   /\ onRecoveryLog' = Append(onRecoveryLog, c)
                   /\ attempts' = [attempts EXCEPT ![c] = @ + 1]
                   /\ UNCHANGED <<pc, result>>
    ELSE /\ isRecovering' = FALSE
         /\ pc' = [pc EXCEPT ![c] = "done"]
         /\ result' = [result EXCEPT ![c] = "false"]
         /\ UNCHANGED <<retryCount, attempts, onRecoveryLog>>

\* execute resumed after the await: the strategy has settled.
ExecuteResume(c) ==
  LET r == PerformRecovery(act[c]) IN
  /\ pc[c] = "awaiting"
  /\ delays' = [delays EXCEPT ![c] = @ \o r.waited]
  /\ UNCHANGED <<recEnabled, maxRetries, fallbackComponent, act>>
  /\ UNCHANGED <<repVars, acVars, obsVars, lwVars, fnVars, pbVars, loopVars, sbVars>>
  /\ CASE r.outcome = "true"  -> RecoverySucceeded(c)
       [] r.outcome = "threw" -> RecoveryThrew(c)
       [] OTHER               -> RecoveryFailed(c)
  /\ ProviderOnRecovery(Len(onRecoveryLog') > Len(onRecoveryLog))

\* resetRetryCount()
ResetRetryCount ==
  /\ retryCount # 0
  /\ retryCount' = 0
  /\ UNCHANGED <<recEnabled, maxRetries, fallbackComponent, isRecovering,
                 pc, result, act, attempts, delays, onRecoveryLog>>
  /\ UNCHANGED <<repVars, acVars, obsVars, lwVars, fnVars, gpVars, pbVars,
                 loopVars, sbVars>>

NextRecovery ==
  \/ \E c \in Calls, action \in Actions, t \in BOOLEAN : Execute(c, action, t)
  \/ \E c \in Calls : ExecuteResume(c)
  \/ ResetRetryCount

\* =============================================================== Reporter
DefaultBatchSize == 10
QueueLimit == 100

\* The batchSize values and the burst lengths tried.  A burst is a run of
\* report calls made back to back by one synchronous caller, so that no
\* timer or network callback runs between them.
BatchSizes == {0, 2, 100}
BurstSizes == {1, 50}

RECURSIVE Flatten(_)
Flatten(batches) ==
  IF batches = <<>> THEN <<>> ELSE Head(batches) \o Flatten(Tail(batches))

SeqRange(q) == { q[i] : i \in 1..Len(q) }
RemoveAt(q, i) == SubSeq(q, 1, i - 1) \o SubSeq(q, i + 1, Len(q))

\* The part of the Reporter's state that report and flush write.
RepState == [queue |-> queue, inflight |-> inflight, reported |-> reported,
             customSeen |-> customSeen, requests |-> requests]

FlushStepIgnoresEndpoint(s) ==
  IF Len(s.queue) = 0
    THEN s
    ELSE [s EXCEPT !.inflight = Append(@, s.queue), !.queue = <<>>,
                   !.requests = @ + 1]

FlushStepKeepsQueue(s) ==
  IF Len(s.queue) = 0 \/ ~endpoint
    THEN s
    ELSE [s EXCEPT !.inflight = Append(@, s.queue), !.requests = @ + 1]

\* flush(), up to the await of fetch: swap the queue out and send it.
FlushStep(s) ==
  IF Len(s.queue) = 0 \/ ~endpoint
    THEN s
    ELSE [s EXCEPT !.inflight = Append(@, s.queue), !.queue = <<>>,
                   !.requests = @ + 1]

\* report(error), up to its first await.
ReportStep(s) ==
  LET r  == s.reported + 1
      s1 == [s EXCEPT !.reported = r, !.queue = Append(@, r)]
  IN  IF ~repEnabled THEN [s EXCEPT !.reported = r]
      ELSE IF customReporter THEN [s1 EXCEPT !.customSeen = Append(@, r)]
      ELSE IF Len(s1.queue) >= (IF batchSize # 0 THEN batchSize ELSE DefaultBatchSize)
             THEN FlushStep(s1)
             ELSE s1

RECURSIVE ReportBurst(_, _)
ReportBurst(s, k) ==
  IF k = 0 THEN s
  ELSE LET t == ReportStep(s)
       IN  IF t.reported > s.reported THEN ReportBurst(t, k - 1) ELSE t

SetRepState(s) ==
  /\ queue' = s.queue
  /\ inflight' = s.inflight
  /\ reported' = s.reported
  /\ customSeen' = s.customSeen
  /\ requests' = s.requests

InitReporter ==
  /\ repEnabled \in BOOLEAN
  /\ endpoint \in BOOLEAN
  /\ customReporter \in BOOLEAN
  /\ batchSize \in BatchSizes
  /\ queue = <<>>
  /\ flushTimer = repEnabled       \* the constructor starts the timer
  /\ reported = 0
  /\ reportCalls = 0
  /\ inflight = <<>>
  /\ delivered = <<>>
  /\ customSeen = <<>>
  /\ requests = 0
  /\ failedDeliveries = 0
  /\ lastFailed = [batch |-> <<>>, queueBefore |-> <<>>]
  /\ lost = {}

InitReporterDefault ==
  /\ InitReporter
  /\ repEnabled = TRUE /\ endpoint = FALSE /\ customReporter = FALSE
  /\ batchSize = 0

\* k report calls in a row.
Report(k) ==
  /\ reportCalls < MaxReportCalls
  /\ reportCalls' = reportCalls + 1
  /\ SetRepState(ReportBurst(RepState, k))
  /\ requests' <= MaxFlushes
  /\ UNCHANGED <<repEnabled, endpoint, customReporter, batchSize, flushTimer,
                 delivered, failedDeliveries, lastFailed, lost>>
  /\ UNCHANGED <<recVars, acVars, obsVars, lwVars, fnVars, gpVars, pbVars,
                 loopVars, sbVars>>

\* The interval callback of startFlushTimer.
TimerTick ==
  /\ flushTimer
  /\ requests < MaxFlushes
  /\ SetRepState(IF Len(queue) > 0 THEN FlushStep(RepState) ELSE RepState)
  /\ UNCHANGED <<repEnabled, endpoint, customReporter, batchSize, flushTimer,
                 reportCalls, delivered, failedDeliveries, lastFailed, lost>>
  /\ UNCHANGED <<recVars, acVars, obsVars, lwVars, fnVars, gpVars, pbVars,
                 loopVars, sbVars>>

\* flush() called by the host.
Flush ==
  /\ requests < MaxFlushes
  /\ SetRepState(FlushStep(RepState))
  /\ UNCHANGED <<repEnabled, endpoint, customReporter, batchSize, flushTimer,
                 reportCalls, delivered, failedDeliveries, lastFailed, lost>>
  /\ UNCHANGED <<recVars, acVars, obsVars, lwVars, fnVars, gpVars, pbVars,
                 loopVars, sbVars>>

\* stop(): clear the timer, then flush.
Stop ==
  /\ flushTimer
  /\ requests < MaxFlushes
  /\ flushTimer' = FALSE
  /\ SetRepState(FlushStep(RepState))
  /\ UNCHANGED <<repEnabled, endpoint, customReporter, batchSize,
                 reportCalls, delivered, failedDeliveries, lastFailed, lost>>
  /\ UNCHANGED <<recVars, acVars, obsVars, lwVars, fnVars, gpVars, pbVars,
                 loopVars, sbVars>>

\* flush resumed after the await: the response is ok.
DeliveryOk(i) ==
  /\ i \in 1..Len(inflight)
  /\ inflight' = RemoveAt(inflight, i)
  /\ delivered' = Append(delivered, inflight[i])
  /\ UNCHANGED <<repEnabled, endpoint, customReporter, batchSize, queue,
                 flushTimer, reported, reportCalls, customSeen, requests,
                 failedDeliveries, lastFailed, lost>>
  /\ UNCHANGED <<recVars, acVars, obsVars, lwVars, fnVars, gpVars, pbVars,
                 loopVars, sbVars>>

RequeueAtBack(batch) ==
  IF Len(queue) < QueueLimit
    THEN queue' = queue \o batch /\ UNCHANGED lost
    ELSE UNCHANGED queue /\ lost' = lost \cup SeqRange(batch)

\* The catch block of flush: put the batch back unless the queue is long.
Requeue(batch) ==
  IF Len(queue) < QueueLimit
    THEN queue' = batch \o queue /\ UNCHANGED lost
    ELSE UNCHANGED queue /\ lost' = lost \cup SeqRange(batch)

\* flush resumed after the await: fetch rejected or the response is not ok.
DeliveryFails(i) ==
  /\ i \in 1..Len(inflight)
  /\ inflight' = RemoveAt(inflight, i)
  /\ failedDeliveries' = failedDeliveries + 1
  /\ lastFailed' = [batch |-> inflight[i], queueBefore |-> queue]
  /\ Requeue(inflight[i])
  /\ UNCHANGED <<repEnabled, endpoint, customReporter, batchSize,
                 flushTimer, reported, reportCalls, delivered, customSeen,
                 requests>>
  /\ UNCHANGED <<recVars, acVars, obsVars, lwVars, fnVars, gpVars, pbVars,
                 loopVars, sbVars>>

NextReporter ==
  \/ \E k \in BurstSizes : Report(k)
  \/ TimerTick
  \/ Flush
  \/ Stop
  \/ \E i \in 1..MaxFlushes : DeliveryOk(i)
  \/ \E i \in 1..MaxFlushes : DeliveryFails(i)

\* ============================================================ AutoCorrect
HistoryLimit == 5
EmptyPageFloor == 100

\* Page contents: "" is the empty document, FallbackHTML the placeholder
\* of injectFallbackContent.
FallbackHTML == "fallback"
Contents == {"", "a"}

\* What a white-page check measures: content height, viewport height, the
\* configured threshold (in percent of the viewport height).
ContentHeights == {50, 90, 1000}
ViewportHeights == {800}
ThresholdPercents == {10}

InitAutoCorrect ==
  /\ whitePageEnabled \in BOOLEAN
  /\ isRunning = FALSE
  /\ whitePageCheckInterval = FALSE
  /\ contentHistory = <<>>
  /\ lastContentSnapshot = ""
  /\ body \in Contents
  /\ elementHTML = "a"
  /\ saveLog = <<>>
  /\ pops = 0
  /\ autoCorrectLog = <<>>
  /\ autoCorrectSuccess = <<>>
  /\ reloads = 0
  /\ reloadTimers = 0
  /\ checks = 0

InitAutoCorrectDefault ==
  /\ InitAutoCorrect
  /\ whitePageEnabled = TRUE /\ body = "a"

\* The healing strategies a configuration lists, in its order; the third
\* list is the one GuardianProvider configures by default.
StrategyLists == {<<>>, <<"reload-component">>,
                  <<"reload-component", "fix-layout", "inject-fallback">>,
                  <<"fix-layout", "reload-component", "reload-component">>,
                  <<"restore-content", "retry-render", "fix-layout">>}
\* Those that differ in the timeouts they schedule.
TimerStrategyLists == {<<>>, <<"reload-component">>,
                       <<"fix-layout", "reload-component", "reload-component">>}

\* No observer and no timeout exists before start().
InitObservers ==
  /\ pageBreakEnabled \in BOOLEAN
  /\ visualHealingEnabled \in BOOLEAN
  /\ strategies \in StrategyLists
  /\ mutationObservers = 0
  /\ resizeObservers = 0
  /\ displayTimers = 0
  /\ callbackLog = <<>>

\* A configuration with page-break detection and visual healing off.
InitObserversDefault ==
  /\ InitObservers
  /\ pageBreakEnabled = FALSE /\ visualHealingEnabled = FALSE
  /\ strategies = <<>>

\* start(): starts the sub-checks whose flag is set; each observer is a new
\* object held in a local variable of its start procedure.
StartAutoCorrect ==
  /\ ~isRunning
  /\ isRunning' = TRUE
  /\ whitePageCheckInterval' = whitePageEnabled
  /\ mutationObservers' = IF pageBreakEnabled THEN mutationObservers + 1
                                              ELSE mutationObservers
  /\ resizeObservers' = IF visualHealingEnabled THEN resizeObservers + 1
                                                ELSE resizeObservers
  /\ UNCHANGED <<whitePageEnabled, contentHistory, lastContentSnapshot, body,
                 elementHTML, saveLog, pops, autoCorrectLog,
                 autoCorrectSuccess, reloads, reloadTimers, checks>>
  /\ UNCHANGED <<pageBreakEnabled, visualHealingEnabled, strategies,
                 displayTimers, callbackLog>>
  /\ UNCHANGED <<recVars, repVars, lwVars, fnVars, gpVars, pbVars, loopVars, sbVars>>

\* start() while fewer than MaxObservers observers of either kind exist.
Start ==
  /\ mutationObservers < MaxObservers
  /\ resizeObservers < MaxObservers
  /\ StartAutoCorrect

\* start() once more than that.
StartAgain ==
  /\ mutationObservers <= MaxObservers
  /\ resizeObservers <= MaxObservers
  /\ StartAutoCorrect

\* stop(): clears the white-page interval, nothing else.
StopAutoCorrect ==
  /\ isRunning
  /\ isRunning' = FALSE
  /\ whitePageCheckInterval' = FALSE
  /\ UNCHANGED <<whitePageEnabled, contentHistory, lastContentSnapshot, body,
                 elementHTML, saveLog, pops, autoCorrectLog,
                 autoCorrectSuccess, reloads, reloadTimers, checks>>
  /\ UNCHANGED <<recVars, repVars, obsVars, lwVars, fnVars, gpVars, pbVars,
                 loopVars, sbVars>>

\* updateConfig(newConfig): the new sections replace the stored ones; no
\* timer and no observer is touched.
UpdateConfig(whitePage, pageBreak, visualHealing) ==
  /\ <<whitePage, pageBreak, visualHealing>>
       # <<whitePageEnabled, pageBreakEnabled, visualHealingEnabled>>
  /\ whitePageEnabled' = whitePage
  /\ pageBreakEnabled' = pageBreak
  /\ visualHealingEnabled' = visualHealing
  /\ UNCHANGED <<isRunning, whitePageCheckInterval, contentHistory,
                 lastContentSnapshot, body, elementHTML, saveLog, pops,
                 autoCorrectLog, autoCorrectSuccess, reloads, reloadTimers, checks>>
  /\ UNCHANGED <<strategies, mutationObservers, resizeObservers,
                 displayTimers, callbackLog>>
  /\ UNCHANGED <<recVars, repVars, lwVars, fnVars, gpVars, pbVars, loopVars, sbVars>>

\* The host renders other content.
HostRenders(c) ==
  /\ c # body
  /\ body' = c
  /\ UNCHANGED <<whitePageEnabled, isRunning, whitePageCheckInterval,
                 contentHistory, lastContentSnapshot, elementHTML, saveLog,
                 pops, autoCorrectLog, autoCorrectSuccess, reloads, reloadTimers, checks>>
  /\ UNCHANGED <<recVars, repVars, obsVars, lwVars, fnVars, gpVars, pbVars,
                 loopVars, sbVars>>

PushEvictNewest(h, snapshot) ==
  LET pushed == Append(h, snapshot)
  IN  IF Len(pushed) > HistoryLimit
        THEN SubSeq(pushed, 1, Len(pushed) - 1)
        ELSE pushed

\* push, then shift while over the limit.
PushEvictOldest(h, snapshot) ==
  LET pushed == Append(h, snapshot)
  IN  IF Len(pushed) > HistoryLimit THEN Tail(pushed) ELSE pushed

\* saveContentSnapshot()
SaveContentSnapshot ==
  /\ Len(saveLog) < MaxSaves
  /\ lastContentSnapshot' = body
  /\ contentHistory' = PushEvictOldest(contentHistory, body)
  /\ saveLog' = Append(saveLog, body)
  /\ UNCHANGED <<whitePageEnabled, isRunning, whitePageCheckInterval, body,
                 elementHTML, pops, autoCorrectLog, autoCorrectSuccess, reloads, reloadTimers,
                 checks>>
  /\ UNCHANGED <<recVars, repVars, obsVars, lwVars, fnVars, gpVars, pbVars,
                 loopVars, sbVars>>

SuccessOfRestoreOnly(type) == type = "content-restore"

\* The success field of the action reported with the given type: each of
\* the three calls of reportAutoCorrect passes the literal true.
SuccessOf(type) ==
  CASE type = "page-break-fix" -> TRUE
    [] type = "layout-heal" -> TRUE
    [] type = "content-restore" -> TRUE

\* restoreFromHistory(): pop the newest snapshot; an empty string is
\* popped but not restored.  st holds the fields the white-page check writes.
RestoreFromHistory(st) ==
  IF Len(st.contentHistory) > 0
    THEN LET lastContent == st.contentHistory[Len(st.contentHistory)]
             popped == [st EXCEPT
                          !.contentHistory = SubSeq(@, 1, Len(@) - 1),
                          !.pops = @ + 1]
         IN  IF lastContent # ""
               THEN [popped EXCEPT
                       !.body = lastContent,
                       !.autoCorrectLog = Append(@, "content-restore"),
                       !.autoCorrectSuccess =
                          Append(@, SuccessOf("content-restore"))]
               ELSE popped
    ELSE st

\* handleWhitePage(): restore from history, else reload.
HandleWhitePage(st) ==
  IF Len(st.contentHistory) > 0
    THEN RestoreFromHistory(st)
    ELSE [st EXCEPT !.reloads = @ + 1]

HandleEmptyPageReloadsAtOnce(st) ==
  [st EXCEPT !.body = FallbackHTML, !.reloads = @ + 1]

\* handleEmptyPage(): inject the placeholder, reload 2000 ms later.
HandleEmptyPage(st) ==
  [st EXCEPT !.body = FallbackHTML, !.reloadTimers = @ + 1]

AcState == [contentHistory |-> contentHistory, pops |-> pops, body |-> body,
            autoCorrectLog |-> autoCorrectLog,
            autoCorrectSuccess |-> autoCorrectSuccess, reloads |-> reloads,
            reloadTimers |-> reloadTimers]

\* checkForWhitePage(), the interval callback.
WhitePageCheck(contentHeight, viewportHeight, thresholdPercent, hasVisibleContent) ==
  LET s1 == IF contentHeight * 100 < thresholdPercent * viewportHeight
              THEN HandleWhitePage(AcState) ELSE AcState
      s2 == IF ~hasVisibleContent /\ contentHeight < EmptyPageFloor
              THEN HandleEmptyPage(s1) ELSE s1
  IN  /\ whitePageCheckInterval
      /\ checks' = checks + 1
      /\ contentHistory' = s2.contentHistory
      /\ pops' = s2.pops
      /\ body' = s2.body
      /\ autoCorrectLog' = s2.autoCorrectLog
      /\ autoCorrectSuccess' = s2.autoCorrectSuccess
      /\ reloads' = s2.reloads
      /\ reloadTimers' = s2.reloadTimers
      /\ callbackLog' = Append(callbackLog, "white-page-check")
      /\ UNCHANGED <<whitePageEnabled, isRunning, whitePageCheckInterval,
                     lastContentSnapshot, elementHTML, saveLog>>
      /\ UNCHANGED <<pageBreakEnabled, visualHealingEnabled, strategies,
                     mutationObservers, resizeObservers, displayTimers>>
      /\ state' = DispatchAutoCorrect(state, Len(autoCorrectLog),
                                       Len(s2.autoCorrectLog))
      /\ RenderAfter(Len(s2.autoCorrectLog) > Len(autoCorrectLog))
      /\ UNCHANGED <<errorsReported, anomaliesReported>>
      /\ UNCHANGED <<recVars, repVars, lwVars, fnVars, pbVars, loopVars, sbVars>>

\* The interval callback, at most MaxChecks times.
CheckForWhitePage(contentHeight, viewportHeight, thresholdPercent, hasVisibleContent) ==
  /\ checks < MaxChecks
  /\ WhitePageCheck(contentHeight, viewportHeight, thresholdPercent,
                    hasVisibleContent)

\* The interval callback, once more than there are snapshots to restore.
CheckForWhitePageAgain(contentHeight, viewportHeight, thresholdPercent, hasVisibleContent) ==
  /\ checks <= MaxSnapshots
  /\ WhitePageCheck(contentHeight, viewportHeight, thresholdPercent,
                    hasVisibleContent)

\* The 2000 ms timeout of handleEmptyPage fires: attemptPageReload().
ReloadTimerFires ==
  /\ reloadTimers > 0
  /\ reloadTimers' = reloadTimers - 1
  /\ reloads' = reloads + 1
  /\ callbackLog' = Append(callbackLog, "delayed-reload")
  /\ UNCHANGED <<whitePageEnabled, isRunning, whitePageCheckInterval,
                 contentHistory, lastContentSnapshot, body, elementHTML,
                 saveLog, pops, autoCorrectLog, autoCorrectSuccess, checks>>
  /\ UNCHANGED <<pageBreakEnabled, visualHealingEnabled, strategies,
                 mutationObservers, resizeObservers, displayTimers>>
  /\ UNCHANGED <<recVars, repVars, lwVars, fnVars, gpVars, pbVars, loopVars, sbVars>>

RestoreContentPops ==
  /\ Len(contentHistory) > 0
  /\ elementHTML' = contentHistory[Len(contentHistory)]
  /\ elementHTML' # elementHTML
  /\ contentHistory' = SubSeq(contentHistory, 1, Len(contentHistory) - 1)
  /\ UNCHANGED <<whitePageEnabled, isRunning, whitePageCheckInterval,
                 lastContentSnapshot, body, saveLog, pops,
                 autoCorrectLog, autoCorrectSuccess, reloads, reloadTimers, checks>>
  /\ UNCHANGED <<recVars, repVars, obsVars, lwVars, fnVars, gpVars, pbVars,
                 loopVars, sbVars>>

\* restoreContent(element), the restore-content healing strategy.
RestoreContent ==
  /\ Len(contentHistory) > 0
  /\ elementHTML' = contentHistory[Len(contentHistory)]
  /\ elementHTML' # elementHTML
  /\ UNCHANGED <<whitePageEnabled, isRunning, whitePageCheckInterval,
                 contentHistory, lastContentSnapshot, body, saveLog, pops,
                 autoCorrectLog, autoCorrectSuccess, reloads, reloadTimers, checks>>
  /\ UNCHANGED <<recVars, repVars, obsVars, lwVars, fnVars, gpVars, pbVars,
                 loopVars, sbVars>>

\* The document the selectors are matched against: e1 is <main id="app">,
\* e2 is a <div>.  querySelectorAll returns the matches in document order
\* and throws on a selector that does not parse.
Selectors == {"main", "#app", "*", "div["}
Malformed(selector) == selector = "div["
Matches(selector) ==
  CASE selector = "main" -> <<"e1">>
    [] selector = "#app" -> <<"e1">>
    [] selector = "*"    -> <<"e1", "e2">>
    [] OTHER             -> <<>>
SelectorLists == UNION {[1..n -> Selectors] : n \in 0..MaxSelectors}

\* What a scan measures of an element: height below minHeight, and a
\* negative top or left.
ElementBoxes == [short : BOOLEAN, mispositioned : BOOLEAN]

\* One thing a scan did to an element: a healing strategy, the positioning
\* fix, or a report to onAutoCorrect.
Event(e, step) == [element |-> e, step |-> step]
ReportTypes == {"page-break-fix", "layout-heal"}

\* An element during a scan: hidden by display none, replaced in the
\* document by its clone, and what was done to it so far.
Untouched == [hidden |-> FALSE, detached |-> FALSE, events |-> <<>>]

\* One strategy of fixElementLayout.  reloadComponent hides the element;
\* fixLayout shows an element whose computed display is none (a detached
\* element has no computed display); retryRender puts a clone in the
\* element's place.
ApplyStrategy(e, strategy, el) ==
  LET done == [el EXCEPT !.events = Append(@, Event(e, strategy))]
  IN  CASE strategy = "reload-component" -> [done EXCEPT !.hidden = TRUE]
        [] strategy = "fix-layout" ->
             [done EXCEPT !.hidden = IF el.detached THEN @ ELSE FALSE]
        [] strategy = "retry-render" -> [done EXCEPT !.detached = TRUE]
        [] OTHER -> done

\* fixElementLayout(element): every strategy of the list, in its order.
RECURSIVE FixElementLayout(_, _, _)
FixElementLayout(e, list, el) ==
  IF list = <<>> THEN el
  ELSE FixElementLayout(e, Tail(list), ApplyStrategy(e, Head(list), el))

\* handlePageBreak(element)
HandlePageBreak(e, el) ==
  LET fixed == FixElementLayout(e, strategies, el)
  IN  [fixed EXCEPT !.events = Append(@, Event(e, "page-break-fix"))]

\* handleMispositionedElement(element): fixElementPositioning measures the
\* element again, and a hidden or detached element measures all zero.
HandleMispositionedElement(e, el) ==
  LET fixed == IF el.hidden \/ el.detached THEN el
               ELSE [el EXCEPT !.events = Append(@, Event(e, "fix-positioning"))]
  IN  [fixed EXCEPT !.events = Append(@, Event(e, "layout-heal"))]

\* The body of the inner forEach of checkForPageBreaks for one element.
CheckElementForPageBreak(e, box) ==
  LET s1 == IF box.short THEN HandlePageBreak(e, Untouched) ELSE Untouched
      s2 == IF box.mispositioned THEN HandleMispositionedElement(e, s1) ELSE s1
  IN  s2.events

RECURSIVE CheckElementsForPageBreak(_, _)
CheckElementsForPageBreak(list, boxes) ==
  IF list = <<>> THEN <<>>
  ELSE CheckElementForPageBreak(Head(list), boxes[Head(list)])
         \o CheckElementsForPageBreak(Tail(list), boxes)

\* The outer forEach of checkForPageBreaks: the elements it reaches, one
\* entry per match, and whether querySelectorAll threw.
RECURSIVE PageBreakPass(_)
PageBreakPass(list) ==
  IF list = <<>> THEN [processed |-> <<>>, threw |-> FALSE]
  ELSE IF Malformed(Head(list)) THEN [processed |-> <<>>, threw |-> TRUE]
  ELSE LET rest == PageBreakPass(Tail(list))
       IN  [rest EXCEPT !.processed = Matches(Head(list)) \o @]

\* The steps among the events that are in keep, in order.
RECURSIVE StepsWhere(_, _)
StepsWhere(events, keep) ==
  IF events = <<>> THEN <<>>
  ELSE (IF Head(events).step \in keep THEN <<Head(events).step>> ELSE <<>>)
         \o StepsWhere(Tail(events), keep)

NoScan == [boxes |-> [e \in Elements |-> [short |-> FALSE, mispositioned |-> FALSE]],
           events |-> <<>>, threw |-> FALSE]

InitPageBreak ==
  /\ pageBreakSelectors \in SelectorLists
  /\ lastScan = NoScan
  /\ healedStyle = [e \in Elements |-> {}]

\* A configuration with the one selector main.
InitPageBreakDefault ==
  /\ InitPageBreak
  /\ pageBreakSelectors = <<"main">>

\* The MutationObserver callback: checkForPageBreaks().  Every
\* reload-component applied schedules a 100 ms timeout.
CheckForPageBreaks(boxes) ==
  LET pass == PageBreakPass(pageBreakSelectors)
      events == CheckElementsForPageBreak(pass.processed, boxes)
  IN  /\ mutationObservers > 0
      /\ Len(callbackLog) < MaxCallbacks
      /\ callbackLog' = Append(callbackLog, "page-break-scan")
      /\ displayTimers' = displayTimers
                            + Len(StepsWhere(events, {"reload-component"}))
      /\ autoCorrectLog' = autoCorrectLog \o StepsWhere(events, ReportTypes)
      /\ autoCorrectSuccess' =
           autoCorrectSuccess
             \o [i \in 1..Len(StepsWhere(events, ReportTypes)) |->
                   SuccessOf(StepsWhere(events, ReportTypes)[i])]
      /\ lastScan' = [boxes |-> boxes, events |-> events, threw |-> pass.threw]
      /\ UNCHANGED <<whitePageEnabled, isRunning, whitePageCheckInterval,
                     contentHistory, lastContentSnapshot, body, elementHTML,
                     saveLog, pops, reloads, reloadTimers, checks>>
      /\ UNCHANGED <<pageBreakEnabled, visualHealingEnabled, strategies,
                     mutationObservers, resizeObservers>>
      /\ state' = DispatchAutoCorrect(state, Len(autoCorrectLog),
                                       Len(autoCorrectLog'))
      /\ RenderAfter(Len(autoCorrectLog') > Len(autoCorrectLog))
      /\ UNCHANGED <<errorsReported, anomaliesReported>>
      /\ UNCHANGED <<pageBreakSelectors, healedStyle>>
      /\ UNCHANGED <<recVars, repVars, lwVars, fnVars, loopVars, sbVars>>

\* What checkForVisualIssues measures of the resized element: a zero-area
\* box around children, which of display none, visibility hidden and
\* opacity 0 its computed style has, a box wider or taller than the window,
\* and z-index auto on an absolutely positioned element.
Measured(zeroArea, hiddenBy, tooWide, tooTall, zAuto) ==
  [zeroArea |-> zeroArea, hiddenBy |-> hiddenBy, tooWide |-> tooWide,
   tooTall |-> tooTall, zAuto |-> zAuto]
SoundElement == Measured(FALSE, {}, FALSE, FALSE, FALSE)
VisualIssues ==
  {SoundElement,
   Measured(TRUE, {"display"}, FALSE, FALSE, FALSE),
   Measured(TRUE, {"visibility", "opacity"}, FALSE, FALSE, TRUE),
   Measured(FALSE, {}, TRUE, TRUE, FALSE),
   Measured(FALSE, {"opacity"}, FALSE, TRUE, TRUE)}

\* The style properties fixInvisibleElement, fixOverflowElement and
\* fixZIndexIssues set.
VisualFixes(m) ==
  (IF m.zeroArea THEN m.hiddenBy ELSE {})
    \cup (IF m.tooWide THEN {"maxWidth", "overflowX"} ELSE {})
    \cup (IF m.tooTall THEN {"maxHeight", "overflowY"} ELSE {})
    \cup (IF m.zAuto THEN {"zIndex"} ELSE {})

VisualHealingCheckReports(e, m) ==
  /\ resizeObservers > 0
  /\ Len(callbackLog) < MaxCallbacks
  /\ callbackLog' = Append(callbackLog, "visual-healing")
  /\ healedStyle' = [healedStyle EXCEPT ![e] = @ \cup VisualFixes(m)]
  /\ autoCorrectLog' = IF VisualFixes(m) = {} THEN autoCorrectLog
                        ELSE Append(autoCorrectLog, "layout-heal")
  /\ autoCorrectSuccess' = IF VisualFixes(m) = {} THEN autoCorrectSuccess
                            ELSE Append(autoCorrectSuccess, TRUE)
  /\ state' = DispatchAutoCorrect(state, Len(autoCorrectLog),
                                   Len(autoCorrectLog'))
  /\ RenderAfter(Len(autoCorrectLog') > Len(autoCorrectLog))
  /\ UNCHANGED <<whitePageEnabled, isRunning, whitePageCheckInterval,
                 contentHistory, lastContentSnapshot, body, elementHTML,
                 saveLog, pops, reloads, reloadTimers, checks>>
  /\ UNCHANGED <<errorsReported, anomaliesReported>>
  /\ UNCHANGED <<pageBreakEnabled, visualHealingEnabled, strategies,
                 mutationObservers, resizeObservers, displayTimers>>
  /\ UNCHANGED <<pageBreakSelectors, lastScan>>
  /\ UNCHANGED <<recVars, repVars, lwVars, fnVars, loopVars, sbVars>>

\* The ResizeObserver callback: checkForVisualIssues(element) on the
\* resized element e.
VisualHealingCheck(e, m) ==
  /\ resizeObservers > 0
  /\ Len(callbackLog) < MaxCallbacks
  /\ callbackLog' = Append(callbackLog, "visual-healing")
  /\ healedStyle' = [healedStyle EXCEPT ![e] = @ \cup VisualFixes(m)]
  /\ UNCHANGED <<pageBreakEnabled, visualHealingEnabled, strategies,
                 mutationObservers, resizeObservers, displayTimers>>
  /\ UNCHANGED <<pageBreakSelectors, lastScan>>
  /\ UNCHANGED <<recVars, repVars, acVars, lwVars, fnVars, gpVars, loopVars, sbVars>>

\* The 100 ms timeout of reloadComponent fires: the display is put back.
DisplayTimerFires ==
  /\ displayTimers > 0
  /\ displayTimers' = displayTimers - 1
  /\ callbackLog' = Append(callbackLog, "display-toggle")
  /\ UNCHANGED <<pageBreakEnabled, visualHealingEnabled, strategies,
                 mutationObservers, resizeObservers>>
  /\ UNCHANGED <<recVars, repVars, acVars, lwVars, fnVars, gpVars, pbVars,
                 loopVars, sbVars>>

\* start, stop and every callback of the three sub-checks.
NextAutoCorrectCallbacks ==
  \/ Start
  \/ StopAutoCorrect
  \/ \E h \in ContentHeights, v \in ViewportHeights, t \in ThresholdPercents,
        vis \in BOOLEAN : CheckForWhitePage(h, v, t, vis)
  \/ ReloadTimerFires
  \/ \E box \in ElementBoxes : CheckForPageBreaks([e \in Elements |-> box])
  \/ VisualHealingCheck("e1", SoundElement)
  \/ DisplayTimerFires

\* start, stop, updateConfig and the callbacks of the three sub-checks on
\* a healthy page: tall content, no short and no misplaced element.
NextAutoCorrectConfig ==
  \/ Start
  \/ StopAutoCorrect
  \/ \E wp \in BOOLEAN, pb \in BOOLEAN, vh \in BOOLEAN : UpdateConfig(wp, pb, vh)
  \/ \E v \in ViewportHeights, t \in ThresholdPercents :
        CheckForWhitePage(1000, v, t, TRUE)
  \/ CheckForPageBreaks(NoScan.boxes)
  \/ VisualHealingCheck("e1", SoundElement)

\* The boxes a page-break scan measures: both elements alike, or e1 short
\* and misplaced next to a sound e2.
ScanBoxes ==
  {[e \in Elements |-> box] : box \in ElementBoxes}
    \cup {[e \in Elements |-> [short |-> e = "e1", mispositioned |-> e = "e1"]]}

\* start, stop and the page-break scan with its timeouts.
NextPageBreak ==
  \/ Start
  \/ StopAutoCorrect
  \/ \E boxes \in ScanBoxes : CheckForPageBreaks(boxes)
  \/ DisplayTimerFires

\* The host saved up to MaxSnapshots snapshots before the engine starts.
InitWhitePage ==
  /\ whitePageEnabled = TRUE
  /\ isRunning = FALSE
  /\ whitePageCheckInterval = FALSE
  /\ contentHistory \in UNION {[1..k -> Contents] : k \in 0..MaxSnapshots}
  /\ lastContentSnapshot
       = (IF contentHistory = <<>> THEN "" ELSE contentHistory[Len(contentHistory)])
  /\ body \in Contents
  /\ elementHTML = "a"
  /\ saveLog = contentHistory
  /\ pops = 0
  /\ autoCorrectLog = <<>>
  /\ autoCorrectSuccess = <<>>
  /\ reloads = 0
  /\ reloadTimers = 0
  /\ checks = 0

\* The content height measured while the page is white: below the
\* threshold share of the viewport (and below the empty-page floor).
WhiteContentHeights ==
  {h \in ContentHeights :
     \A v \in ViewportHeights, t \in ThresholdPercents : h * 100 < t * v}

\* The page stays white after start(): every periodic check measures a
\* content height below the threshold, and the host saves nothing.
NextWhitePage ==
  \/ Start
  \/ \E h \in WhiteContentHeights, v \in ViewportHeights,
        t \in ThresholdPercents, vis \in BOOLEAN :
          CheckForWhitePageAgain(h, v, t, vis)
  \/ ReloadTimerFires

\* start, the page-break scan and the visual-healing check of any element.
NextVisualHealing ==
  \/ Start
  \/ \E box \in ElementBoxes : CheckForPageBreaks([e \in Elements |-> box])
  \/ \E e \in Elements, m \in VisualIssues : VisualHealingCheck(e, m)

NextAutoCorrect ==
  \/ Start
  \/ StopAutoCorrect
  \/ \E c \in Contents : HostRenders(c)
  \/ SaveContentSnapshot
  \/ \E h \in ContentHeights, v \in ViewportHeights, t \in ThresholdPercents,
        vis \in BOOLEAN : CheckForWhitePage(h, v, t, vis)
  \/ ReloadTimerFires
  \/ RestoreContent

\* The callbacks that report to onAutoCorrect, on a page that stays white
\* with a snapshot saved before start().
NextAutoCorrectReports ==
  \/ Start
  \/ \E h \in WhiteContentHeights, v \in ViewportHeights,
        t \in ThresholdPercents, vis \in BOOLEAN :
          CheckForWhitePage(h, v, t, vis)
  \/ ReloadTimerFires
  \/ \E box \in ElementBoxes : CheckForPageBreaks([e \in Elements |-> box])
  \/ DisplayTimerFires

\* start() and stop() in turn, and the observer callbacks.
NextAutoCorrectRestart ==
  \/ StartAgain
  \/ StopAutoCorrect
  \/ \E box \in ElementBoxes : CheckForPageBreaks([e \in Elements |-> box])
  \/ \E e \in Elements, m \in VisualIssues : VisualHealingCheck(e, m)
  \/ DisplayTimerFires

\* ============================================ AutoCorrect, its own DOM writes
\* The observer of startPageBreakDetection watches document.body with
\* childList, subtree and attributes, so it also sees what fixElementLayout
\* writes.  One element matches the configured selector; a clone of it
\* matches as well.
Displays == {"", "none", "block"}
ElementKinds == {"tall", "empty", "fixed"}

\* rect.height < minHeight: an element with display none measures 0, an
\* element without content or with a height fixed by a stylesheet stays
\* below minHeight when it is displayed.
MeasuresShort(display, kind) == display = "none" \/ kind # "tall"

\* The setTimeout callback of reloadComponent: the value it will write and
\* whether its element is still in the document.
DisplayTimeout(value, inDocument) == [value |-> value, live |-> inDocument]

\* The element while fixElementLayout works on it.  written: a write has
\* queued a mutation record; detached: retryRender has put a clone in its
\* place, and later writes go to the original outside the document.
Scanned(display, kind, timeouts) ==
  [display |-> display, kind |-> kind, detached |-> FALSE, written |-> FALSE,
   timeouts |-> timeouts]

\* Content put into an empty element.
Filled(kind) == IF kind = "empty" THEN "tall" ELSE kind

\* setTimeout(callback, 100).  Of the timeouts that pile up while observer
\* callbacks follow one another without a pause, MaxPending are kept.
SetDisplayTimeout(timeouts, t) ==
  IF Len(timeouts) < MaxPending THEN Append(timeouts, t) ELSE timeouts

\* reloadComponent(element): write of an unchanged value queues no record.
ReloadComponent(el) ==
  IF el.detached
    THEN [el EXCEPT
            !.timeouts = SetDisplayTimeout(@, DisplayTimeout("none", FALSE))]
    ELSE [el EXCEPT
            !.display = "none",
            !.written = @ \/ el.display # "none",
            !.timeouts = SetDisplayTimeout(@, DisplayTimeout(
                IF el.display = "" THEN "block" ELSE el.display, TRUE))]

\* fixLayout(element): a detached element has no computed display.
FixLayout(el) ==
  IF ~el.detached /\ el.display = "none"
    THEN [el EXCEPT !.display = "block", !.written = TRUE]
    ELSE el

\* injectFallback(element)
InjectFallback(el) ==
  IF el.detached THEN el
  ELSE [el EXCEPT !.kind = Filled(@), !.written = TRUE]

\* restoreContent(element)
RestoreContentInto(el) ==
  IF el.detached \/ contentHistory = <<>> THEN el
  ELSE [el EXCEPT
          !.kind = IF contentHistory[Len(contentHistory)] = "" THEN @
                   ELSE Filled(@),
          !.written = TRUE]

\* retryRender(element): the pending timeouts keep the original element.
RetryRender(el) ==
  IF el.detached THEN el
  ELSE [el EXCEPT
          !.detached = TRUE,
          !.written = TRUE,
          !.timeouts = [i \in 1..Len(@) |-> DisplayTimeout(@[i].value, FALSE)]]

\* The switch of fixElementLayout.
HealWith(strategy, el) ==
  CASE strategy = "reload-component" -> ReloadComponent(el)
    [] strategy = "fix-layout"       -> FixLayout(el)
    [] strategy = "inject-fallback"  -> InjectFallback(el)
    [] strategy = "restore-content"  -> RestoreContentInto(el)
    [] strategy = "retry-render"     -> RetryRender(el)
    [] OTHER                         -> el

\* fixElementLayout(element) with its DOM writes.
RECURSIVE HealElement(_, _)
HealElement(list, el) ==
  IF list = <<>> THEN el
  ELSE HealElement(Tail(list), HealWith(Head(list), el))

\* The element has some parent other than the document, and the host and
\* the engine are alone in writing to it.
InitPageBreakLoop ==
  /\ elementDisplay \in Displays
  /\ elementKind \in ElementKinds
  /\ mutationRecords = 0
  /\ displayTimeouts = <<>>
  /\ hostChanged = FALSE

InitPageBreakLoopDefault ==
  /\ InitPageBreakLoop
  /\ elementDisplay = "" /\ elementKind = "tall"

\* The host changes something under document.body, once.
HostMutates ==
  /\ ~hostChanged
  /\ mutationObservers > 0
  /\ hostChanged' = TRUE
  /\ mutationRecords' = mutationObservers
  /\ UNCHANGED <<elementDisplay, elementKind, displayTimeouts>>
  /\ UNCHANGED <<recVars, repVars, acVars, obsVars, lwVars, fnVars, gpVars,
                 pbVars, sbVars>>

\* The callback of one MutationObserver: checkForPageBreaks() on the
\* element, handlePageBreak when it measures short.  What it writes is
\* queued for every observer, this one included.
PageBreakScan ==
  /\ mutationRecords > 0
  /\ LET el == Scanned(elementDisplay, elementKind, displayTimeouts)
         healed == IF MeasuresShort(elementDisplay, elementKind)
                     THEN HealElement(strategies, el) ELSE el
     IN  /\ elementDisplay' = healed.display
         /\ elementKind' = healed.kind
         /\ displayTimeouts' = healed.timeouts
         /\ mutationRecords' = IF healed.written THEN mutationObservers
                                                 ELSE mutationRecords - 1
  /\ UNCHANGED hostChanged
  /\ UNCHANGED <<recVars, repVars, acVars, obsVars, lwVars, fnVars, gpVars,
                 pbVars, sbVars>>

\* The oldest timeout of reloadComponent runs; observer callbacks are
\* microtasks and run before any timeout.
DisplayTimeoutFires ==
  /\ mutationRecords = 0
  /\ displayTimeouts # <<>>
  /\ LET t == Head(displayTimeouts)
     IN  /\ elementDisplay' = IF t.live THEN t.value ELSE elementDisplay
         /\ mutationRecords' = IF t.live /\ t.value # elementDisplay
                                 THEN mutationObservers ELSE 0
  /\ displayTimeouts' = Tail(displayTimeouts)
  /\ UNCHANGED <<elementKind, hostChanged>>
  /\ UNCHANGED <<recVars, repVars, acVars, obsVars, lwVars, fnVars, gpVars,
                 pbVars, sbVars>>

\* start(), one change by the host, and from then on only the engine.
NextPageBreakLoop ==
  \/ Start
  \/ HostMutates
  \/ PageBreakScan
  \/ DisplayTimeoutFires

\* Nothing of the engine is left to run.
Quiescent == mutationRecords = 0 /\ displayTimeouts = <<>>

\* ========================================================== SmartBoundary
\* The messages of the errors the children throw.
ErrorMessages == {"network down", "boom"}
IsNetworkError(message) == message = "network down"

\* private maxRetries = 3
BoundaryMaxRetries == 3

\* getSmartRecoveryActions(error)[0], the action attemptSmartRecovery runs.
\* An absent maxRetries reads as 0.
FirstRecoveryAction(message) ==
  IF IsNetworkError(message)
    THEN [strategy |-> "retry", maxRetries |-> 2]
    ELSE [strategy |-> "fallback", maxRetries |-> 0]

\* action.maxRetries || this.maxRetries
RetryLimit(action) ==
  IF action.maxRetries # 0 THEN action.maxRetries ELSE BoundaryMaxRetries

\* The limit under the one action that retries.
NetworkRetryLimit == RetryLimit(FirstRecoveryAction("network down"))

\* 1000 * (this.state.retryCount + 1)
RetryDelay(count) == 1000 * (count + 1)

InitSmartBoundary ==
  /\ mounted = TRUE
  /\ hasError = FALSE
  /\ boundaryRetryCount = 0
  /\ retryTimeout = 0
  /\ liveTimeouts = {}
  /\ timeoutsSet = 0
  /\ autoResets = 0
  /\ firedAtMaximum = FALSE
  /\ firedUnmounted = FALSE

InitSmartBoundaryDefault == InitSmartBoundary

\* handleRetry(action): the new timeout id overwrites this.retryTimeout,
\* and the timeout the field held before stays pending.
BoundaryHandleRetry(action) ==
  IF boundaryRetryCount < RetryLimit(action)
    THEN /\ timeoutsSet' = timeoutsSet + 1
         /\ retryTimeout' = timeoutsSet + 1
         /\ liveTimeouts' = liveTimeouts \cup
              {[id |-> timeoutsSet + 1, delay |-> RetryDelay(boundaryRetryCount)]}
    ELSE UNCHANGED <<timeoutsSet, retryTimeout, liveTimeouts>>

\* The children throw while rendering: getDerivedStateFromError, then
\* componentDidCatch -> attemptSmartRecovery -> executeRecoveryAction.
ChildrenThrow(message) ==
  /\ mounted /\ ~hasError
  /\ timeoutsSet < MaxTimeouts
  /\ hasError' = TRUE
  /\ LET action == FirstRecoveryAction(message)
     IN  IF action.strategy = "retry"
           THEN BoundaryHandleRetry(action)
           ELSE UNCHANGED <<timeoutsSet, retryTimeout, liveTimeouts>>
  /\ UNCHANGED <<mounted, boundaryRetryCount, autoResets, firedAtMaximum,
                 firedUnmounted>>
  /\ UNCHANGED <<recVars, repVars, acVars, obsVars, lwVars, fnVars, gpVars,
                 pbVars, loopVars>>

\* The callback of a timeout of handleRetry runs.  setState on an
\* unmounted component changes nothing.
RetryTimeoutFires(t) ==
  /\ t \in liveTimeouts
  /\ \A u \in liveTimeouts : ~(u.id < t.id /\ u.delay <= t.delay)
  /\ liveTimeouts' = liveTimeouts \ {t}
  /\ IF mounted
       THEN /\ hasError' = FALSE
            /\ boundaryRetryCount' = boundaryRetryCount + 1
            /\ autoResets' = IF hasError THEN autoResets + 1 ELSE autoResets
            /\ firedAtMaximum' =
                 (firedAtMaximum
                    \/ (hasError /\ boundaryRetryCount >= NetworkRetryLimit))
            /\ UNCHANGED firedUnmounted
       ELSE /\ firedUnmounted' = TRUE
            /\ UNCHANGED <<hasError, boundaryRetryCount, autoResets,
                           firedAtMaximum>>
  /\ UNCHANGED <<mounted, retryTimeout, timeoutsSet>>
  /\ UNCHANGED <<recVars, repVars, acVars, obsVars, lwVars, fnVars, gpVars,
                 pbVars, loopVars>>

\* handleRetryClick (the button of the fallback) and componentDidUpdate
\* after the parent passed other children make the same setState while the
\* fallback is shown; neither clears a timeout.
ResetErrorState(cause) ==
  /\ mounted /\ hasError
  /\ cause \in {"retry-click", "children-change"}
  /\ hasError' = FALSE
  /\ boundaryRetryCount' = 0
  /\ autoResets' = 0
  /\ UNCHANGED <<mounted, retryTimeout, liveTimeouts, timeoutsSet,
                 firedAtMaximum, firedUnmounted>>
  /\ UNCHANGED <<recVars, repVars, acVars, obsVars, lwVars, fnVars, gpVars,
                 pbVars, loopVars>>

\* componentWillUnmount(): clears the timeout this.retryTimeout holds.
Unmount ==
  /\ mounted
  /\ mounted' = FALSE
  /\ liveTimeouts' = {t \in liveTimeouts : t.id # retryTimeout}
  /\ UNCHANGED <<hasError, boundaryRetryCount, retryTimeout, timeoutsSet,
                 autoResets, firedAtMaximum, firedUnmounted>>
  /\ UNCHANGED <<recVars, repVars, acVars, obsVars, lwVars, fnVars, gpVars,
                 pbVars, loopVars>>

\* Some pending timeout of handleRetry comes due.
RetryTimeoutDue == \E t \in liveTimeouts : RetryTimeoutFires(t)

NextSmartBoundary ==
  \/ \E message \in ErrorMessages : ChildrenThrow(message)
  \/ RetryTimeoutDue
  \/ \E cause \in {"retry-click", "children-change"} : ResetErrorState(cause)
  \/ Unmount

\* ========================================================== LayoutWatcher
\* The elements the host takes out of the document and puts back.
Removable == {"e2"}

NoRect == [none |-> TRUE]
Rect(l, t, w, h) == [left |-> l, top |-> t, width |-> w, height |-> h]
Right(r) == r.left + r.width
Bottom(r) == r.top + r.height

\* The boxes getBoundingClientRect returns for a watched element, and the
\* box of its parent.
Rects == {Rect(0, 0, 50, 50), Rect(8, 0, 50, 50), Rect(-10, 0, 0, 50)}
ParentRect == Rect(0, 0, 100, 100)

\* What getComputedStyle gives for a watched element.
\*   overflowVisible: overflowX or overflowY is 'visible'
\*   clips:           clipPath is not 'none' or clip is not 'auto'
\*   positioned:      position is 'absolute' or 'fixed'
\*   hidden:          visibility hidden, display none or opacity 0,
\*                    on an element that has text or children
Style(o, c, p, h) ==
  [overflowVisible |-> o, clips |-> c, positioned |-> p, hidden |-> h]
PlainStyle == Style(FALSE, FALSE, FALSE, FALSE)
MovableStyle == Style(FALSE, FALSE, TRUE, FALSE)
BrokenStyle == Style(TRUE, TRUE, TRUE, TRUE)

\* config.thresholds in hundredths: positioning 0.05 is 5, overflow 0.10 is 10.
ThresholdConfigs == {[positioning |-> 5, overflow |-> 10],
                     [positioning |-> 0, overflow |-> 0],
                     [positioning |-> -1, overflow |-> -1]}

Abs(x) == IF x < 0 THEN -x ELSE x

\* num / den > k / 100 as JavaScript evaluates it for den >= 0 and a finite
\* k: 0 / 0 is NaN (every comparison false), x / 0 is +Infinity or -Infinity.
RatioGt(num, den, k) ==
  IF den = 0 THEN num > 0 ELSE num * 100 > k * den
IsNaN(num, den) == den = 0 /\ num = 0

\* The four overflow ratios of calculateSeverity, as <<numerator, denominator>>.
OverflowRatios(rect, parentRect) ==
  << <<Right(rect) - Right(parentRect), parentRect.width>>,
     <<parentRect.left - rect.left, parentRect.width>>,
     <<Bottom(rect) - Bottom(parentRect), parentRect.height>>,
     <<parentRect.top - rect.top, parentRect.height>> >>

\* calculateSeverity(): Math.max of the four ratios (NaN if any is NaN),
\* compared with 0.5, 0.3, 0.1.
CalculateSeverity(rect, parentRect) ==
  LET rs == OverflowRatios(rect, parentRect)
      nan == \E i \in 1..4 : IsNaN(rs[i][1], rs[i][2])
      MaxGt(k) == \E i \in 1..4 : RatioGt(rs[i][1], rs[i][2], k)
  IN  IF nan THEN "low"
      ELSE IF MaxGt(50) THEN "critical"
      ELSE IF MaxGt(30) THEN "high"
      ELSE IF MaxGt(10) THEN "medium"
      ELSE "low"

Anomaly(type, severity) == [type |-> type, severity |-> severity]

\* checkOverflowAnomaly(): the anomalies it reports, none or one.
CheckOverflowAnomaly(rect, parentRect, style) ==
  IF style.overflowVisible
    THEN LET overflowX == Right(rect) > Right(parentRect)
                            \/ rect.left < parentRect.left
             overflowY == Bottom(rect) > Bottom(parentRect)
                            \/ rect.top < parentRect.top
         IN  IF overflowX \/ overflowY
               THEN <<Anomaly("overflow", CalculateSeverity(rect, parentRect))>>
               ELSE <<>>
    ELSE <<>>

\* checkClippingAnomaly()
CheckClippingAnomaly(rect, style) ==
  IF style.clips /\ (rect.width = 0 \/ rect.height = 0)
    THEN <<Anomaly("clipping", "high")>>
    ELSE <<>>

\* calculateSeverityFromDelta() of a distance whose square is d2.
SeverityFromDistance(d2) ==
  IF d2 > 100 * 100 THEN "critical"
  ELSE IF d2 > 50 * 50 THEN "high"
  ELSE IF d2 > 20 * 20 THEN "medium"
  ELSE "low"

\* checkPositioningAnomaly(): the distance moved against threshold * 100.
CheckPositioningAnomaly(rect, baseline, style, th) ==
  IF baseline = NoRect THEN <<>>
  ELSE IF style.positioned
    THEN LET deltaX == Abs(rect.left - baseline.left)
             deltaY == Abs(rect.top - baseline.top)
             d2 == deltaX * deltaX + deltaY * deltaY
             px == th.positioning
         IN  IF px < 0 \/ d2 > px * px
               THEN <<Anomaly("positioning", SeverityFromDistance(d2))>>
               ELSE <<>>
    ELSE <<>>

\* calculateSeverityFromDelta() of Math.max of two relative changes, each
\* <<numerator, denominator>>; Math.max is NaN when either is.
SeverityFromChange(a, b) ==
  LET MaxGt(k) == RatioGt(a[1], a[2], k * 100) \/ RatioGt(b[1], b[2], k * 100)
  IN  IF IsNaN(a[1], a[2]) \/ IsNaN(b[1], b[2]) THEN "low"
      ELSE IF MaxGt(100) THEN "critical"
      ELSE IF MaxGt(50) THEN "high"
      ELSE IF MaxGt(20) THEN "medium"
      ELSE "low"

CheckSizingAnomalyOrEqual(rect, baseline, th) ==
  IF baseline = NoRect THEN <<>>
  ELSE LET widthChange == <<Abs(rect.width - baseline.width), baseline.width>>
           heightChange == <<Abs(rect.height - baseline.height), baseline.height>>
       IN  IF \/ widthChange[1] * 100 >= th.overflow * widthChange[2]
              \/ heightChange[1] * 100 >= th.overflow * heightChange[2]
             THEN <<Anomaly("sizing", SeverityFromChange(widthChange, heightChange))>>
             ELSE <<>>

\* checkSizingAnomaly(): the relative change of width or height against
\* thresholds.overflow.
CheckSizingAnomaly(rect, baseline, th) ==
  IF baseline = NoRect THEN <<>>
  ELSE LET widthChange == <<Abs(rect.width - baseline.width), baseline.width>>
           heightChange == <<Abs(rect.height - baseline.height), baseline.height>>
       IN  IF \/ RatioGt(widthChange[1], widthChange[2], th.overflow)
              \/ RatioGt(heightChange[1], heightChange[2], th.overflow)
             THEN <<Anomaly("sizing", SeverityFromChange(widthChange, heightChange))>>
             ELSE <<>>

\* checkVisibilityAnomaly()
CheckVisibilityAnomaly(style) ==
  IF style.hidden THEN <<Anomaly("visibility", "medium")>> ELSE <<>>

\* The fields and live objects a callback of the watcher reads and writes.
LwState ==
  [running |-> watcherRunning, observer |-> observer,
   resizeObserver |-> resizeObserver, intervalId |-> intervalId,
   liveMutationObservers |-> liveMutationObservers,
   liveResizeObservers |-> liveResizeObservers, liveTimers |-> liveTimers,
   baselineMetrics |-> baselineMetrics, observed |-> observed,
   pendingAdded |-> pendingAdded, reports |-> 0, checks |-> <<>>]

NoBaselines == [e \in Elements |-> NoRect]

\* stop(): disconnect the observers held, clear the timer held, clear the map.
StopOn(w) ==
  [w EXCEPT
     !.running = FALSE,
     !.liveMutationObservers = IF w.observer THEN @ - 1 ELSE @,
     !.pendingAdded = IF w.observer THEN {} ELSE @,
     !.observer = FALSE,
     !.liveResizeObservers = IF w.resizeObserver THEN @ - 1 ELSE @,
     !.observed = IF w.resizeObserver THEN {} ELSE @,
     !.resizeObserver = FALSE,
     !.liveTimers = IF w.intervalId THEN @ - 1 ELSE @,
     !.intervalId = FALSE,
     !.baselineMetrics = NoBaselines]

\* establishBaseline(): the box of every matching element.
EstablishBaseline(w, rects) ==
  [w EXCEPT !.baselineMetrics =
     [e \in Elements |-> IF e \in attached THEN rects[e] ELSE @[e]]]

StartOnAlways(w, rects) ==
  [EstablishBaseline([w EXCEPT !.running = TRUE], rects) EXCEPT
     !.observer = TRUE,
     !.liveMutationObservers = @ + 1,
     !.resizeObserver = TRUE,
     !.liveResizeObservers = @ + 1,
     !.observed = attached,
     !.intervalId = TRUE,
     !.liveTimers = @ + 1]

\* start(): nothing when running; else baselines, observers, timer.
StartOn(w, rects) ==
  IF w.running THEN w
  ELSE [EstablishBaseline([w EXCEPT !.running = TRUE], rects) EXCEPT
          !.observer = TRUE,
          !.liveMutationObservers = @ + 1,
          !.resizeObserver = TRUE,
          !.liveResizeObservers = @ + 1,
          !.observed = attached,
          !.intervalId = TRUE,
          !.liveTimers = @ + 1]

\* reportAnomaly(): config.onAnomaly(anomaly); the host's callback calls
\* stop() in its stopAt-th invocation of this run (0: never).  afterStop
\* marks an anomaly handed over while the watcher was stopped, baselineSeen is
\* the baseline entry of the element at that moment.
ReportAnomaly(w, e, anomaly, stopAt) ==
  LET n == w.reports + 1
      told == [w EXCEPT !.reports = n]
  IN  [anomaly |-> [type |-> anomaly.type, severity |-> anomaly.severity,
                    afterStop |-> ~w.running,
                    baselineSeen |-> w.baselineMetrics[e]],
       w |-> IF n = stopAt THEN StopOn(told) ELSE told]

\* The anomalies in found are reported one after the other.
RECURSIVE ReportAll(_, _, _, _, _)
ReportAll(w, e, found, stopAt, done) ==
  IF found = <<>> THEN [w |-> w, reported |-> done]
  ELSE LET r == ReportAnomaly(w, e, Head(found), stopAt)
       IN  ReportAll(r.w, e, Tail(found), stopAt, Append(done, r.anomaly))

\* One element check as lastChecks keeps it.
Check(e, isAttached, rect, style, baseline, anomalies) ==
  [element |-> e, attached |-> isAttached, rect |-> rect, style |-> style,
   baseline |-> baseline, anomalies |-> anomalies]

CheckElementSizingFirst(w, e, rect, style, stopAt) ==
  IF e \notin attached
    THEN [w EXCEPT !.baselineMetrics[e] = NoRect,
                   !.checks = Append(@, Check(e, FALSE, NoRect, style,
                                              w.baselineMetrics[e], <<>>))]
    ELSE LET baseline == w.baselineMetrics[e]
             found == CheckOverflowAnomaly(rect, ParentRect, style)
                        \o CheckClippingAnomaly(rect, style)
                        \o CheckSizingAnomaly(rect, baseline, thresholds)
                        \o CheckPositioningAnomaly(rect, baseline, style, thresholds)
                        \o CheckVisibilityAnomaly(style)
             r == ReportAll(w, e, found, stopAt, <<>>)
         IN  [r.w EXCEPT !.baselineMetrics[e] = rect,
                         !.checks = Append(@, Check(e, TRUE, rect, style,
                                                    baseline, r.reported))]

CheckElementKeepsBaseline(w, e, rect, style, stopAt) ==
  IF e \notin attached
    THEN [w EXCEPT !.baselineMetrics[e] = NoRect,
                   !.checks = Append(@, Check(e, FALSE, NoRect, style,
                                              w.baselineMetrics[e], <<>>))]
    ELSE LET baseline == w.baselineMetrics[e]
             found == CheckOverflowAnomaly(rect, ParentRect, style)
                        \o CheckClippingAnomaly(rect, style)
                        \o CheckPositioningAnomaly(rect, baseline, style, thresholds)
                        \o CheckSizingAnomaly(rect, baseline, thresholds)
                        \o CheckVisibilityAnomaly(style)
             r == ReportAll(w, e, found, stopAt, <<>>)
         IN  [r.w EXCEPT !.baselineMetrics[e] =
                           IF baseline = NoRect THEN rect ELSE baseline,
                         !.checks = Append(@, Check(e, TRUE, rect, style,
                                                    baseline, r.reported))]

\* checkElementForAnomalies(): a detached element loses its baseline; an
\* attached one gets the five checks in order, each anomaly reported as it
\* is found, then its baseline is set to the box just read.
CheckElementForAnomalies(w, e, rect, style, stopAt) ==
  IF e \notin attached
    THEN [w EXCEPT !.baselineMetrics[e] = NoRect,
                   !.checks = Append(@, Check(e, FALSE, NoRect, style,
                                              w.baselineMetrics[e], <<>>))]
    ELSE LET baseline == w.baselineMetrics[e]
             found == CheckOverflowAnomaly(rect, ParentRect, style)
                        \o CheckClippingAnomaly(rect, style)
                        \o CheckPositioningAnomaly(rect, baseline, style, thresholds)
                        \o CheckSizingAnomaly(rect, baseline, thresholds)
                        \o CheckVisibilityAnomaly(style)
             r == ReportAll(w, e, found, stopAt, <<>>)
         IN  [r.w EXCEPT !.baselineMetrics[e] = rect,
                         !.checks = Append(@, Check(e, TRUE, rect, style,
                                                    baseline, r.reported))]

\* What a callback reads from the document for each element it checks.
ElementInput(rect, style) == [rect |-> rect, style |-> style]
ElementInputs == {ElementInput(Rect(0, 0, 50, 50), PlainStyle),
                  ElementInput(Rect(0, 0, 50, 50), MovableStyle),
                  ElementInput(Rect(8, 0, 50, 50), MovableStyle),
                  ElementInput(Rect(-10, 0, 0, 50), BrokenStyle)}
\* e1 is read in every way, e2 in two.
InputsOf(e) ==
  IF e = "e1" THEN ElementInputs
  ELSE {ElementInput(Rect(0, 0, 50, 50), PlainStyle),
        ElementInput(Rect(-10, 0, 0, 50), BrokenStyle)}
ScanInputs == {f \in [Elements -> ElementInputs] :
                 \A e \in Elements : f[e] \in InputsOf(e)}
StartRects == {f \in [Elements -> Rects] :
                 \A e \in Elements : f[e] \in {i.rect : i \in InputsOf(e)}}

\* Boxes of an element that drifts: every step to a neighbouring box moves
\* it by 4 px or changes its width by less than a tenth, two steps in the
\* same direction add up to more than the default thresholds allow.
DriftLefts == {0, 4, 8}
DriftWidths == {50, 54, 58}
DriftInputs == {ElementInput(Rect(l, 0, w, 50), MovableStyle) :
                  l \in DriftLefts, w \in DriftWidths}
StartupRect == Rect(0, 0, 50, 50)
DriftScanInputs == {f \in [Elements -> DriftInputs] :
                      f["e2"] = ElementInput(StartupRect, MovableStyle)}

\* The elements of list are checked one after the other.
RECURSIVE CheckEach(_, _, _, _)
CheckEach(w, list, inputs, stopAt) ==
  IF list = <<>> THEN w
  ELSE LET e == Head(list)
           next == CheckElementForAnomalies(w, e, inputs[e].rect,
                                            inputs[e].style, stopAt)
       IN  CheckEach(next, Tail(list), inputs, stopAt)

InOrder(set) == SelectSeq(ElementOrder, LAMBDA e : e \in set)

\* The variables of the watcher after a run that ended in w.
SetLwState(w, op) ==
  /\ watcherRunning' = w.running
  /\ observer' = w.observer
  /\ resizeObserver' = w.resizeObserver
  /\ intervalId' = w.intervalId
  /\ liveMutationObservers' = w.liveMutationObservers
  /\ liveResizeObservers' = w.liveResizeObservers
  /\ liveTimers' = w.liveTimers
  /\ baselineMetrics' = w.baselineMetrics
  /\ observed' = w.observed
  /\ pendingAdded' = w.pendingAdded
  /\ lastOp' = op
  /\ lastChecks' = w.checks
  /\ UNCHANGED thresholds
  /\ UNCHANGED <<recVars, repVars, acVars, obsVars, fnVars, gpVars, pbVars,
                 loopVars, sbVars>>

\* The invocation of onAnomaly, counted within one run, in which the host
\* calls stop(); 0 when it never does.
StopAts == {0, 1}

InitLayoutWatcher ==
  /\ watcherRunning = FALSE
  /\ observer = FALSE
  /\ resizeObserver = FALSE
  /\ intervalId = FALSE
  /\ liveMutationObservers = 0
  /\ liveResizeObservers = 0
  /\ liveTimers = 0
  /\ baselineMetrics = NoBaselines
  /\ thresholds \in ThresholdConfigs
  /\ attached = {"e1"}
  /\ observed = {}
  /\ pendingAdded = {}
  /\ lastOp = "host"
  /\ lastChecks = <<>>

InitLayoutWatcherDefault ==
  /\ InitLayoutWatcher
  /\ thresholds = [positioning |-> 5, overflow |-> 10]

\* start(); rects are the boxes establishBaseline reads.
StartWatcher(rects) ==
  /\ SetLwState(StartOn(LwState, rects), "start")
  /\ UNCHANGED attached

\* stop()
StopWatcher ==
  /\ SetLwState(StopOn(LwState), "host")
  /\ UNCHANGED attached

\* The interval callback: performAnomalyCheck() over the matching elements.
PerformAnomalyCheck(inputs, stopAt) ==
  /\ liveTimers > 0
  /\ SetLwState(CheckEach(LwState, InOrder(attached), inputs, stopAt), "timer")
  /\ UNCHANGED attached

\* The MutationObserver callback: every added element node is checked.
MutationCallback(inputs, stopAt) ==
  /\ liveMutationObservers > 0
  /\ pendingAdded # {}
  /\ SetLwState(CheckEach([LwState EXCEPT !.pendingAdded = {}],
                          InOrder(pendingAdded), inputs, stopAt), "mutation")
  /\ UNCHANGED attached

\* The ResizeObserver callback with one entry, a target whose size changed
\* (a target taken out of the document changes to no size).
ResizeCallback(e, input, stopAt) ==
  /\ liveResizeObservers > 0
  /\ e \in observed
  /\ SetLwState(CheckElementForAnomalies(LwState, e, input.rect, input.style,
                                         stopAt), "resize")
  /\ UNCHANGED attached

\* The host puts a matching element into the document.
HostAttaches(e) ==
  /\ e \notin attached
  /\ attached' = attached \cup {e}
  /\ SetLwState([LwState EXCEPT !.pendingAdded =
                   IF liveMutationObservers > 0 THEN @ \cup {e} ELSE @],
                "host")

\* The host takes an element out of the document.
HostDetaches(e) ==
  /\ e \in attached
  /\ attached' = attached \ {e}
  /\ SetLwState(LwState, "host")

NextLayoutWatcher ==
  \/ \E rects \in StartRects : StartWatcher(rects)
  \/ StopWatcher
  \/ \E inputs \in ScanInputs, stopAt \in StopAts :
       PerformAnomalyCheck(inputs, stopAt)
  \/ \E inputs \in ScanInputs, stopAt \in StopAts :
       MutationCallback(inputs, stopAt)
  \/ \E e \in Elements, stopAt \in StopAts :
       \E input \in InputsOf(e) : ResizeCallback(e, input, stopAt)
  \/ \E e \in Removable : HostAttaches(e)
  \/ \E e \in Removable : HostDetaches(e)

\* The watcher over a drifting element.
NextLayoutDrift ==
  \/ StartWatcher([e \in Elements |-> StartupRect])
  \/ StopWatcher
  \/ \E inputs \in DriftScanInputs, stopAt \in StopAts :
       PerformAnomalyCheck(inputs, stopAt)
  \/ \E inputs \in DriftScanInputs, stopAt \in StopAts :
       MutationCallback(inputs, stopAt)
  \/ \E input \in DriftInputs, stopAt \in StopAts :
       ResizeCallback("e1", input, stopAt)
  \/ \E e \in Removable : HostAttaches(e)
  \/ \E e \in Removable : HostDetaches(e)

\* ======================================================== pure functions
\* One function is applied to one input drawn from its input set.
\* Nothing has been applied yet.
InitFunctions ==
  /\ fnInput = [fn |-> "none"]
  /\ fnOutput = <<>>

\* Boxes of an element and of its parent for the overflow check; a
\* collapsed container has no width.
OverflowRects ==
  {Rect(l, 0, w, h) : l \in {-60, -20, 0}, w \in {50, 105, 120, 140, 170},
                      h \in {50, 120}}
OverflowParents == {Rect(0, 0, 100, 100), Rect(0, 0, 0, 100)}
OverflowStyles == {PlainStyle, Style(TRUE, FALSE, FALSE, FALSE)}

\* checkOverflowAnomaly(element, rect, computedStyle) for an element with
\* a parent.
ApplyCheckOverflowAnomaly(rect, parentRect, style) ==
  /\ fnInput.fn = "none"
  /\ fnInput' = [fn |-> "checkOverflowAnomaly", rect |-> rect,
                 parentRect |-> parentRect, style |-> style]
  /\ fnOutput' = CheckOverflowAnomaly(rect, parentRect, style)
  /\ UNCHANGED <<recVars, repVars, acVars, obsVars, lwVars, gpVars, pbVars,
                 loopVars, sbVars>>

\* An error message is a sequence of fragments; message.includes(p) holds
\* when p is one of them.  "Fetch" and "timeout" match no pattern.
Fragments == {"fetch", "Fetch", "Loading chunk", "ChunkLoadError", "401",
              "Unauthorized", "403", "Forbidden", "500",
              "Internal Server Error", "timeout"}
Messages == UNION {[1..n -> Fragments] : n \in 0..MaxFragments}
ErrorNames == {"Error", "NetworkError", "TypeError", "ReferenceError"}
Errors == [name : ErrorNames, message : Messages]

Includes(message, pattern) == \E i \in DOMAIN message : message[i] = pattern

RetrySuggestion(n) == [strategy |-> "retry", maxRetries |-> n]
FallbackSuggestion ==
  [strategy |-> "fallback", fallbackComponent |-> fallbackComponent]
ReloadSuggestion == [strategy |-> "reload"]
RedirectSuggestion(url) == [strategy |-> "redirect", redirectUrl |-> url]

GetSmartRecoverySuggestionsChunkFirst(error) ==
  LET network == IF error.name = "NetworkError" \/ Includes(error.message, "fetch")
                   THEN <<RetrySuggestion(3), FallbackSuggestion>> ELSE <<>>
      script == IF error.name = "TypeError" \/ error.name = "ReferenceError"
                  THEN <<RetrySuggestion(1), FallbackSuggestion>> ELSE <<>>
      chunk == IF Includes(error.message, "Loading chunk")
                    \/ Includes(error.message, "ChunkLoadError")
                 THEN <<ReloadSuggestion>> ELSE <<>>
      auth == IF Includes(error.message, "401")
                   \/ Includes(error.message, "Unauthorized")
                THEN <<RedirectSuggestion("/login")>> ELSE <<>>
      permission == IF Includes(error.message, "403")
                         \/ Includes(error.message, "Forbidden")
                      THEN <<RedirectSuggestion("/unauthorized")>> ELSE <<>>
      server == IF Includes(error.message, "500")
                     \/ Includes(error.message, "Internal Server Error")
                  THEN <<RetrySuggestion(2), FallbackSuggestion>> ELSE <<>>
      suggestions == network \o chunk \o script \o auth \o permission \o server
  IN  IF Len(suggestions) = 0
        THEN <<RetrySuggestion(1), FallbackSuggestion>>
        ELSE suggestions

\* getSmartRecoverySuggestions(error): six independent tests, each pushing
\* its suggestions; the generic pair when nothing was pushed.
GetSmartRecoverySuggestions(error) ==
  LET network == IF error.name = "NetworkError" \/ Includes(error.message, "fetch")
                   THEN <<RetrySuggestion(3), FallbackSuggestion>> ELSE <<>>
      script == IF error.name = "TypeError" \/ error.name = "ReferenceError"
                  THEN <<RetrySuggestion(1), FallbackSuggestion>> ELSE <<>>
      chunk == IF Includes(error.message, "Loading chunk")
                    \/ Includes(error.message, "ChunkLoadError")
                 THEN <<ReloadSuggestion>> ELSE <<>>
      auth == IF Includes(error.message, "401")
                   \/ Includes(error.message, "Unauthorized")
                THEN <<RedirectSuggestion("/login")>> ELSE <<>>
      permission == IF Includes(error.message, "403")
                         \/ Includes(error.message, "Forbidden")
                      THEN <<RedirectSuggestion("/unauthorized")>> ELSE <<>>
      server == IF Includes(error.message, "500")
                     \/ Includes(error.message, "Internal Server Error")
                  THEN <<RetrySuggestion(2), FallbackSuggestion>> ELSE <<>>
      suggestions == network \o script \o chunk \o auth \o permission \o server
  IN  IF Len(suggestions) = 0
        THEN <<RetrySuggestion(1), FallbackSuggestion>>
        ELSE suggestions

ApplyGetSmartRecoverySuggestions(error) ==
  /\ fnInput.fn = "none"
  /\ fnInput' = [fn |-> "getSmartRecoverySuggestions", error |-> error]
  /\ fnOutput' = GetSmartRecoverySuggestions(error)
  /\ UNCHANGED <<recVars, repVars, acVars, obsVars, lwVars, gpVars, pbVars,
                 loopVars, sbVars>>

\* LayoutWatcher.getElementsToWatch(): the matches of every selector, one
\* entry per match; a selector that throws is caught and skipped.
RECURSIVE GetElementsToWatch(_)
GetElementsToWatch(list) ==
  IF list = <<>> THEN <<>>
  ELSE (IF Malformed(Head(list)) THEN <<>> ELSE Matches(Head(list)))
         \o GetElementsToWatch(Tail(list))

ApplyGetElementsToWatch(list) ==
  /\ fnInput.fn = "none"
  /\ fnInput' = [fn |-> "getElementsToWatch", selectors |-> list]
  /\ fnOutput' = GetElementsToWatch(list)
  /\ UNCHANGED <<recVars, repVars, acVars, obsVars, lwVars, gpVars, pbVars,
                 loopVars, sbVars>>

\* The elements one pass of AutoCorrect.checkForPageBreaks() reaches under
\* the selectors given.
ApplyPageBreakPass(list) ==
  /\ fnInput.fn = "none"
  /\ fnInput' = [fn |-> "checkForPageBreaks", selectors |-> list]
  /\ fnOutput' = PageBreakPass(list).processed
  /\ UNCHANGED <<recVars, repVars, acVars, obsVars, lwVars, gpVars, pbVars,
                 loopVars, sbVars>>

\* The actions handed to handleRetry.  maxRetriesGiven tells whether the
\* optional field maxRetries is present; an absent field reads as
\* undefined, which || treats like 0.
RetryInputs ==
  { [NoAction EXCEPT !.strategy = "retry", !.retryCount = n]
      @@ [maxRetriesGiven |-> FALSE] : n \in 0..MaxActionCount }
  \cup
  { [NoAction EXCEPT !.strategy = "retry", !.maxRetries = m, !.retryCount = n]
      @@ [maxRetriesGiven |-> TRUE] :
      m \in 0..MaxActionCount, n \in 0..MaxActionCount }

\* handleRetry(action) under the configured maxRetries.
ApplyHandleRetry(action) ==
  /\ fnInput.fn = "none"
  /\ fnInput' = [fn |-> "handleRetry", action |-> action,
                 configMaxRetries |-> maxRetries]
  /\ fnOutput' = HandleRetry(action)
  /\ UNCHANGED <<recVars, repVars, acVars, obsVars, lwVars, gpVars, pbVars,
                 loopVars, sbVars>>

NextFunctions ==
  \/ \E rect \in OverflowRects, parentRect \in OverflowParents,
        style \in OverflowStyles :
          ApplyCheckOverflowAnomaly(rect, parentRect, style)
  \/ \E error \in Errors : ApplyGetSmartRecoverySuggestions(error)
  \/ \E action \in RetryInputs : ApplyHandleRetry(action)
  \/ \E list \in SelectorLists : ApplyGetElementsToWatch(list)
  \/ \E list \in SelectorLists : ApplyPageBreakPass(list)

\* The functions are applied under every configured maxRetries.
InitOfFunctions ==
  InitRecovery /\ recEnabled = TRUE /\ fallbackComponent = FALSE
    /\ InitReporterDefault /\ InitAutoCorrectDefault
    /\ InitObserversDefault /\ InitLayoutWatcherDefault /\ InitFunctions
    /\ InitGuardianProvider /\ InitPageBreakDefault
    /\ InitPageBreakLoopDefault /\ InitSmartBoundaryDefault

\* ========================================================= specifications
InitOfRecovery ==
  InitRecovery /\ InitReporterDefault /\ InitAutoCorrectDefault
    /\ InitObserversDefault /\ InitLayoutWatcherDefault /\ InitFunctions
    /\ InitGuardianProvider /\ InitPageBreakDefault
    /\ InitPageBreakLoopDefault /\ InitSmartBoundaryDefault
InitOfReporter ==
  InitRecoveryDefault /\ InitReporter /\ InitAutoCorrectDefault
    /\ InitObserversDefault /\ InitLayoutWatcherDefault /\ InitFunctions
    /\ InitGuardianProvider /\ InitPageBreakDefault
    /\ InitPageBreakLoopDefault /\ InitSmartBoundaryDefault
InitOfAutoCorrect ==
  InitRecoveryDefault /\ InitReporterDefault /\ InitAutoCorrect
    /\ InitObserversDefault /\ InitLayoutWatcherDefault /\ InitFunctions
    /\ InitGuardianProvider /\ InitPageBreakDefault
    /\ InitPageBreakLoopDefault /\ InitSmartBoundaryDefault
InitOfAutoCorrectCallbacks ==
  InitRecoveryDefault /\ InitReporterDefault /\ InitAutoCorrect
    /\ InitObservers /\ strategies \in TimerStrategyLists
    /\ InitLayoutWatcherDefault /\ InitFunctions
    /\ InitGuardianProvider /\ InitPageBreakDefault
    /\ InitPageBreakLoopDefault /\ InitSmartBoundaryDefault
InitOfAutoCorrectConfig ==
  InitRecoveryDefault /\ InitReporterDefault /\ InitAutoCorrect /\ body = "a"
    /\ InitObservers /\ strategies = <<>>
    /\ InitLayoutWatcherDefault /\ InitFunctions
    /\ InitGuardianProvider /\ InitPageBreakDefault
    /\ InitPageBreakLoopDefault /\ InitSmartBoundaryDefault
InitOfPageBreak ==
  InitRecoveryDefault /\ InitReporterDefault /\ InitAutoCorrectDefault
    /\ InitObservers /\ pageBreakEnabled = TRUE /\ visualHealingEnabled = FALSE
    /\ InitLayoutWatcherDefault /\ InitFunctions
    /\ InitGuardianProvider /\ InitPageBreak
    /\ InitPageBreakLoopDefault /\ InitSmartBoundaryDefault
InitOfWhitePage ==
  InitRecoveryDefault /\ InitReporterDefault /\ InitWhitePage
    /\ InitObserversDefault /\ InitLayoutWatcherDefault /\ InitFunctions
    /\ InitGuardianProvider /\ InitPageBreakDefault
    /\ InitPageBreakLoopDefault /\ InitSmartBoundaryDefault
InitOfAutoCorrectReports ==
  InitRecoveryDefault /\ InitReporterDefault /\ InitWhitePage
    /\ Len(contentHistory) <= 1 /\ body = ""
    /\ InitObservers /\ pageBreakEnabled = TRUE /\ visualHealingEnabled = FALSE
    /\ strategies \in TimerStrategyLists
    /\ InitLayoutWatcherDefault /\ InitFunctions
    /\ InitGuardianProvider /\ InitPageBreakDefault
    /\ InitPageBreakLoopDefault /\ InitSmartBoundaryDefault
InitOfAutoCorrectRestart ==
  InitRecoveryDefault /\ InitReporterDefault /\ InitAutoCorrectDefault
    /\ InitObservers /\ pageBreakEnabled = TRUE /\ visualHealingEnabled = TRUE
    /\ strategies \in TimerStrategyLists
    /\ InitLayoutWatcherDefault /\ InitFunctions
    /\ InitGuardianProvider /\ InitPageBreakDefault
    /\ InitPageBreakLoopDefault /\ InitSmartBoundaryDefault
InitOfVisualHealing ==
  InitRecoveryDefault /\ InitReporterDefault /\ InitAutoCorrectDefault
    /\ InitObservers /\ visualHealingEnabled = TRUE
    /\ InitLayoutWatcherDefault /\ InitFunctions
    /\ InitGuardianProvider /\ InitPageBreakDefault
    /\ InitPageBreakLoopDefault /\ InitSmartBoundaryDefault
InitOfLayoutWatcher ==
  InitRecoveryDefault /\ InitReporterDefault /\ InitAutoCorrectDefault
    /\ InitObserversDefault /\ InitLayoutWatcher /\ InitFunctions
    /\ InitGuardianProvider /\ InitPageBreakDefault
    /\ InitPageBreakLoopDefault /\ InitSmartBoundaryDefault

InitOfGuardianProvider ==
  InitRecoveryDefault /\ InitReporterDefault /\ InitAutoCorrectDefault
    /\ InitObserversDefault /\ InitLayoutWatcherDefault /\ InitFunctions
    /\ InitGuardianProvider /\ InitPageBreakDefault
    /\ InitPageBreakLoopDefault /\ InitSmartBoundaryDefault

InitOfPageBreakLoop ==
  InitRecoveryDefault /\ InitReporterDefault
    /\ InitWhitePage /\ Len(contentHistory) <= 1 /\ body = "a"
    /\ InitObservers /\ pageBreakEnabled = TRUE /\ visualHealingEnabled = FALSE
    /\ InitLayoutWatcherDefault /\ InitFunctions
    /\ InitGuardianProvider /\ InitPageBreakDefault
    /\ InitPageBreakLoop /\ InitSmartBoundaryDefault

\* The browser runs every queued observer callback and every due timeout.
SpecPageBreakLoop ==
  InitOfPageBreakLoop /\ [][NextPageBreakLoop]_vars
    /\ WF_vars(PageBreakScan) /\ WF_vars(DisplayTimeoutFires)

InitOfSmartBoundary ==
  InitRecoveryDefault /\ InitReporterDefault /\ InitAutoCorrectDefault
    /\ InitObserversDefault /\ InitLayoutWatcherDefault /\ InitFunctions
    /\ InitGuardianProvider /\ InitPageBreakDefault
    /\ InitPageBreakLoopDefault /\ InitSmartBoundary

SpecSmartBoundary == InitOfSmartBoundary /\ [][NextSmartBoundary]_vars

SpecGuardianProvider ==
  InitOfGuardianProvider /\ [][NextGuardianProvider]_vars
SpecReporter == InitOfReporter /\ [][NextReporter]_vars
SpecRecovery == InitOfRecovery /\ [][NextRecovery]_vars
SpecAutoCorrect == InitOfAutoCorrect /\ [][NextAutoCorrect]_vars
SpecAutoCorrectCallbacks ==
  InitOfAutoCorrectCallbacks /\ [][NextAutoCorrectCallbacks]_vars
SpecAutoCorrectConfig ==
  InitOfAutoCorrectConfig /\ [][NextAutoCorrectConfig]_vars
SpecPageBreak == InitOfPageBreak /\ [][NextPageBreak]_vars
SpecWhitePage == InitOfWhitePage /\ [][NextWhitePage]_vars
SpecAutoCorrectReports ==
  InitOfAutoCorrectReports /\ [][NextAutoCorrectReports]_vars
SpecAutoCorrectRestart ==
  InitOfAutoCorrectRestart /\ [][NextAutoCorrectRestart]_vars
SpecVisualHealing == InitOfVisualHealing /\ [][NextVisualHealing]_vars
SpecLayoutWatcher == InitOfLayoutWatcher /\ [][NextLayoutWatcher]_vars
SpecLayoutDrift == InitOfLayoutWatcher /\ [][NextLayoutDrift]_vars
SpecFunctions == InitOfFunctions /\ [][NextFunctions]_vars

\* ------------------------------------------------- RecoveryEngine claims
\* A call is accepted when it got past the guard of execute.
Accepted(c) == pc[c] # "none" /\ \E i \in 1..Len(onRecoveryLog) : onRecoveryLog[i] = c
Rejected(c) == pc[c] = "done" /\ ~Accepted(c)

\* C1: an execute call issued while the engine is disabled or Recovering
\* returns false at once and changes nothing: onRecovery is not invoked, no
\* strategy runs, retryCount and isRecovering stay as they were; and the
\* dropped call is not queued: once returned it never runs a strategy.
C1_RejectedExecuteIsNoOp ==
  [][\A c \in Calls :
       /\ (pc[c] = "none" /\ pc'[c] # "none" /\ (~recEnabled \/ isRecovering))
            => /\ pc'[c] = "done" /\ result'[c] = "false"
               /\ UNCHANGED <<retryCount, isRecovering, onRecoveryLog,
                               attempts, delays>>
       /\ pc[c] = "done"
            => /\ pc'[c] = "done" /\ result'[c] = result[c]
               /\ attempts'[c] = attempts[c]
               /\ (Accepted(c))' = Accepted(c)]_vars

\* C1 witness: a call was rejected while another call is still suspended in
\* its strategy on an enabled engine.
C1_Witness ==
  \E c, d \in Calls :
    /\ recEnabled /\ pc[d] = "awaiting" /\ isRecovering
    /\ Rejected(c) /\ result[c] = "false" /\ attempts[c] = 0

\* A step in which call c is issued.
Issued(c) == pc[c] = "none" /\ pc'[c] # "none"

\* C25: an accepted execute call enters Recovering, then invokes onRecovery
\* once with its action, and only then performs the strategy (a callback
\* that throws leaves the engine Recovering with no strategy performed);
\* onRecovery is invoked for no rejected call and at no other moment.
C25_RecoveringThenCallbackThenStrategy ==
  [][/\ \A c \in Calls :
          Issued(c) =>
            IF ~recEnabled \/ isRecovering
              THEN onRecoveryLog' = onRecoveryLog /\ attempts'[c] = 0
              ELSE /\ isRecovering'
                   /\ onRecoveryLog' = Append(onRecoveryLog, c)
                   /\ act'[c] \in Actions
                   /\ attempts'[c] = (IF result'[c] = "threw" THEN 0 ELSE 1)
     /\ (\A c \in Calls : ~Issued(c)) => onRecoveryLog' = onRecoveryLog]_vars

\* C25 witness: one call was accepted, called back once and succeeded, and
\* the call issued during its strategy was rejected without a callback.
C25_Witness ==
  \E c, d \in Calls :
    /\ c < d /\ pc[c] = "done" /\ result[c] = "true" /\ attempts[c] = 1
    /\ Rejected(d) /\ onRecoveryLog = <<c>>

\* The cases C2 speaks of: the engine is configured with maxRetries = 2 and
\* the call was accepted with a plain retry action (no maxRetries and no
\* retryCount of its own), its onRecovery callback returned, and the call
\* has returned.
C2_Case(c) ==
  /\ maxRetries = 2 /\ pc[c] = "done" /\ attempts[c] > 0
  /\ act[c].strategy = "retry" /\ act[c].maxRetries = 0 /\ act[c].retryCount = 0

\* C2 as stated: with maxRetries = 2 one execute call with strategy retry
\* makes 3 attempts, waits 1000 ms then 2000 ms, and reports failure.
C2_ThreeAttemptsThenFailure ==
  \A c \in Calls :
    C2_Case(c) => attempts[c] = 3 /\ result[c] = "false"
                  /\ delays[c] = <<1000, 2000>>

\* C2 amended: with maxRetries = 2 one execute call with strategy retry
\* makes exactly 1 attempt, waits 1000 ms once, and reports success.
C2_OneAttemptThenSuccess ==
  \A c \in Calls :
    C2_Case(c) => attempts[c] = 1 /\ result[c] = "true"
                  /\ delays[c] = <<1000>>

C2_Witness == \E c \in Calls : C2_Case(c)

\* C3: an accepted execute call whose strategy fails returns false with the
\* engine back in Idle (after the self-retries).
C3_FailedExecuteEndsIdle ==
  [][\A c \in Calls :
       (pc[c] = "awaiting" /\ pc'[c] = "done" /\ result'[c] = "false")
          => ~isRecovering']_vars

\* C4: when the strategy of an accepted call succeeds, execute returns true
\* and at that moment retryCount is 0 and the engine is Idle, so that a
\* following call passes the guard.
C4_SuccessResetsEngine ==
  [][\A c \in Calls :
       /\ (pc[c] = "awaiting" /\ PerformRecovery(act[c]).outcome = "true")
            => (pc'[c] # pc[c] => pc'[c] = "done" /\ result'[c] = "true")
       /\ (pc[c] = "awaiting" /\ pc'[c] = "done" /\ result'[c] = "true")
            => retryCount' = 0 /\ ~ExecuteRejects(isRecovering)']_vars

\* C4 witness: a call returned true and the call issued after it was
\* accepted.
C4_Witness ==
  \E c, d \in Calls :
    /\ c < d /\ pc[c] = "done" /\ result[c] = "true"
    /\ retryCount = 0 /\ pc[d] = "awaiting" /\ Accepted(d)

\* ------------------------------------------------------- Reporter claims
\* A step in which a pending fetch fails.
DeliveryFailed == failedDeliveries' = failedDeliveries + 1

\* C5 as stated (taken without a custom sink, whose records stay queued):
\* when delivery of a batch fails, the whole batch is put back at the front
\* of the queue in its order, ahead of the records reported meanwhile, and
\* none of its records is lost.
C5_FailedBatchAlwaysRestored ==
  [][(DeliveryFailed /\ ~customReporter) =>
       queue' = lastFailed'.batch \o queue /\ lost' = lost]_vars

\* C5 amended: when delivery of a batch fails and the queue holds fewer than
\* 100 records, the whole batch is put back at the front of the queue in its
\* order, ahead of the records reported meanwhile; when the queue holds 100
\* records or more, the whole batch is dropped and the queue stays as it is.
C5_FailedBatchRestoredBelowLimit ==
  [][DeliveryFailed =>
       IF Len(queue) < 100
         THEN queue' = lastFailed'.batch \o queue /\ lost' = lost
         ELSE queue' = queue
              /\ lost' = lost \cup SeqRange(lastFailed'.batch)]_vars

\* C5 witness: a batch failed while newer records were waiting and now
\* stands in front of them.
C5_Witness ==
  /\ failedDeliveries > 0
  /\ lastFailed.batch # <<>> /\ lastFailed.queueBefore # <<>>
  /\ queue = lastFailed.batch \o lastFailed.queueBefore

\* C6: with an endpoint configured (and no custom sink) the queue never
\* holds more than 100 records.
C6_QueueNeverExceedsLimit ==
  (endpoint /\ ~customReporter) => Len(queue) <= 100

\* C7 as stated: with no endpoint and no custom sink no request is ever
\* issued, and the queue holds every record reported so far.
C7_NoEndpointQueueHoldsAllReported ==
  (~endpoint /\ ~customReporter) =>
     /\ requests = 0 /\ inflight = <<>> /\ delivered = <<>>
     /\ queue = [i \in 1..reported |-> i]

\* C7 amended: with no endpoint and no custom sink no request is ever
\* issued; and when the reporter is enabled the queue holds every record
\* reported so far (a disabled reporter queues nothing).
C7_NoEndpointNoRequest ==
  (~endpoint /\ ~customReporter) =>
     /\ requests = 0 /\ inflight = <<>> /\ delivered = <<>>
     /\ queue = IF repEnabled THEN [i \in 1..reported |-> i] ELSE <<>>

\* C7 witness: an enabled reporter without endpoint holds more records than
\* batchSize after flush/stop ran.
C7_Witness ==
  /\ repEnabled /\ ~endpoint /\ ~customReporter /\ ~flushTimer
  /\ batchSize # 0 /\ Len(queue) > batchSize

\* C8: with a custom sink every reported record is handed to it and is not
\* queued, so it never reaches the endpoint through a flush.
C8_CustomSinkBypassesQueue ==
  (repEnabled /\ customReporter) =>
     /\ customSeen = [i \in 1..reported |-> i]
     /\ queue = <<>> /\ inflight = <<>> /\ delivered = <<>>

\* C9: every record is in at most one place (the queue, one batch in
\* flight, one delivered batch), hence it is delivered at most once; a
\* batch in flight never changes; and a step that starts a flush leaves
\* none of the records that were queued in the queue.
EverywhereOnce ==
  LET all == queue \o Flatten(inflight) \o Flatten(delivered)
  IN  Cardinality(SeqRange(all)) = Len(all)

C9_FlushSwapsQueueOut ==
  /\ []EverywhereOnce
  /\ [][\A i \in 1..Len(inflight') : \A j \in 1..Len(inflight) :
          (SeqRange(inflight'[i]) \cap SeqRange(inflight[j]) # {})
             => inflight'[i] = inflight[j]]_vars
  /\ [][(\E i \in 1..Len(inflight') :
            \A j \in 1..Len(inflight) : inflight'[i] # inflight[j])
          => SeqRange(queue) \cap SeqRange(queue') = {}]_vars

\* C9 witness: two flushes overlap, one of them carrying records of a batch
\* that failed before, while newer records wait in the queue.
C9_Witness ==
  /\ Len(inflight) >= 2 /\ failedDeliveries > 0 /\ queue # <<>>
  /\ lastFailed.batch # <<>>
  /\ SeqRange(lastFailed.batch) \subseteq SeqRange(Flatten(inflight))

\* ---------------------------------------------------- AutoCorrect claims
LastOf(n, q) == SubSeq(q, Len(q) - n + 1, Len(q))

\* C10: the history never holds more than 5 snapshots, and as long as no
\* snapshot was restored it holds the last 5 saved (all of them when fewer
\* were saved), in save order.
C10_HistoryKeepsLastFive ==
  /\ Len(contentHistory) <= 5
  /\ pops = 0 =>
       contentHistory = LastOf(Min(5, Len(saveLog)), saveLog)

\* C10 witness: six snapshots were saved, the first differing from the
\* sixth, and five remain.
C10_Witness ==
  /\ Len(saveLog) = 6 /\ pops = 0 /\ Len(contentHistory) = 5
  /\ saveLog[1] # saveLog[6]

\* A white-page check that found the content ratio below the threshold with
\* a non-empty history is the one step that pops a snapshot.
WhitePageRestoreStep ==
  /\ checks' = checks + 1
  /\ pops' = pops + 1

\* C11: a white-page check that finds the content ratio below the threshold
\* while the snapshot history is non-empty puts the most recent snapshot
\* back into the page, reports one content-restore action, and neither
\* reloads the page nor schedules a delayed reload.
C11_WhitePageRestoresWithoutReload ==
  [][WhitePageRestoreStep =>
       /\ body' = contentHistory[Len(contentHistory)]
       /\ autoCorrectLog' = Append(autoCorrectLog, "content-restore")
       /\ reloads' = reloads
       /\ reloadTimers' = reloadTimers]_vars

\* C26: while the page stays white and nothing is saved, each check pops one
\* snapshot, the most recent first, and restores it as long as the history
\* is non-empty, and the first check that finds the history empty requests
\* the reload: with k snapshots at the start, a reload is requested on
\* check k + 1 and not before.
C26_RestoreEachThenReload ==
  LET k == Len(saveLog) IN
  /\ pops = Min(checks, k)
  /\ contentHistory = SubSeq(saveLog, 1, k - pops)
  /\ checks \in 1..k => body = saveLog[k - checks + 1]
  /\ reloads + reloadTimers > 0 <=> checks > k

\* A white-page check that measured the given content height and found
\* too little visible content.
EmptyPageCheck(h) ==
  \E v \in ViewportHeights, t \in ThresholdPercents :
    WhitePageCheck(h, v, t, FALSE)

\* The ratio test of a check that measured content height h.
RatioBelowThreshold(h) ==
  \E v \in ViewportHeights, t \in ThresholdPercents : h * 100 < t * v

C29_HistoryReadByHealingPoppedByRestore ==
  [][/\ elementHTML' # elementHTML
         => /\ elementHTML' = contentHistory[Len(contentHistory)]
            /\ contentHistory' = contentHistory
     /\ pops' # pops
         => /\ pops' = pops + 1
            /\ contentHistory'
                 = SubSeq(contentHistory, 1, Len(contentHistory) - 1)
     /\ contentHistory' # contentHistory
         => \/ pops' = pops + 1
            \/ /\ saveLog' = Append(saveLog, body)
               /\ contentHistory' = PushEvictOldest(contentHistory, body)]_vars

\* C29 witness: a snapshot was copied into the element by restore-content
\* and later removed by a white-page restoration.
C29_Witness ==
  /\ elementHTML # "a" /\ pops = 1
  /\ Len(saveLog) > 0 /\ elementHTML = saveLog[Len(saveLog)]
  /\ Len(contentHistory) = Min(HistoryLimit, Len(saveLog)) - 1

\* C12: while the engine is stopped no Auto-Correct callback runs: no
\* white-page check, no page-break scan, no visual-healing check, and no
\* delayed reload or display toggle scheduled before stop() fires.
C12_NoCallbackAfterStop ==
  [][~isRunning => callbackLog' = callbackLog]_vars

\* --------------------------------------------------- LayoutWatcher claims
AllChecks == {lastChecks[i] : i \in DOMAIN lastChecks}
AnomaliesOf(c) == {c.anomalies[j] : j \in DOMAIN c.anomalies}
TypesOf(c) == {a.type : a \in AnomaliesOf(c)}

\* C13: while the watcher is stopped its timer and both observers are
\* detached, the baseline map is empty, and no anomaly is handed to
\* onAnomaly once stop() has returned.
C13_StoppedWatcherIsSilent ==
  /\ ~watcherRunning =>
       /\ liveTimers = 0
       /\ liveMutationObservers = 0
       /\ liveResizeObservers = 0
       /\ baselineMetrics = NoBaselines
  /\ \A c \in AllChecks : \A a \in AnomaliesOf(c) : ~a.afterStop

\* A check that read the same box as the check before it, under thresholds
\* that are not negative.
UnchangedBox(c) ==
  /\ c.attached
  /\ c.baseline = c.rect
  /\ thresholds.positioning >= 0
  /\ thresholds.overflow >= 0

\* C14: a check of an element whose box equals the box of its previous
\* check reports neither a sizing nor a positioning anomaly for it, when
\* the thresholds are not negative.
C14_UnchangedBoxNoSizingNoPositioning ==
  \A c \in AllChecks :
    UnchangedBox(c) => TypesOf(c) \cap {"sizing", "positioning"} = {}

\* A periodic scan checked a positioned element whose box had not changed.
C14_Witness ==
  /\ lastOp = "timer"
  /\ \E c \in AllChecks : UnchangedBox(c) /\ c.style.positioned

\* The element's box exceeds its parent's box on some edge.
ExceedsParent(rect, parentRect) ==
  \/ Right(rect) > Right(parentRect) \/ rect.left < parentRect.left
  \/ Bottom(rect) > Bottom(parentRect) \/ rect.top < parentRect.top

\* The largest of the four overflow ratios is above k hundredths: some edge
\* exceeds the parent's by more than k hundredths of the parent's width
\* (left, right) or height (top, bottom).
LargestRatioAbove(rect, parentRect, k) ==
  \/ (Right(rect) - Right(parentRect)) * 100 > k * parentRect.width
  \/ (parentRect.left - rect.left) * 100 > k * parentRect.width
  \/ (Bottom(rect) - Bottom(parentRect)) * 100 > k * parentRect.height
  \/ (parentRect.top - rect.top) * 100 > k * parentRect.height

SeverityOfLargestRatio(rect, parentRect) ==
  IF LargestRatioAbove(rect, parentRect, 50) THEN "critical"
  ELSE IF LargestRatioAbove(rect, parentRect, 30) THEN "high"
  ELSE IF LargestRatioAbove(rect, parentRect, 10) THEN "medium"
  ELSE "low"

\* C15: an element with overflow visible whose box exceeds its parent's box
\* gets one overflow anomaly whose severity is the bucket of the largest
\* overflow ratio over the four edges (> 0.5 critical, > 0.3 high, > 0.1
\* medium, else low); a right edge beyond the parent's right edge by more
\* than half the parent's width gives critical.
C15_OverflowSeverityByLargestRatio ==
  (/\ fnInput.fn = "checkOverflowAnomaly"
   /\ fnInput.style.overflowVisible
   /\ ExceedsParent(fnInput.rect, fnInput.parentRect))
    => /\ Len(fnOutput) = 1
       /\ fnOutput[1].type = "overflow"
       /\ fnOutput[1].severity
            = SeverityOfLargestRatio(fnInput.rect, fnInput.parentRect)
       /\ (Right(fnInput.rect) - Right(fnInput.parentRect)) * 2
              > fnInput.parentRect.width
            => fnOutput[1].severity = "critical"

\* The place of each anomaly type in the fixed order of one element check.
Rank(type) ==
  CASE type = "overflow" -> 1
    [] type = "clipping" -> 2
    [] type = "positioning" -> 3
    [] type = "sizing" -> 4
    [] type = "visibility" -> 5

\* The check of type t, taken on its own, finds an anomaly in what check c read.
Triggered(t, c) ==
  CASE t = "overflow" -> CheckOverflowAnomaly(c.rect, ParentRect, c.style) # <<>>
    [] t = "clipping" -> CheckClippingAnomaly(c.rect, c.style) # <<>>
    [] t = "positioning" ->
         CheckPositioningAnomaly(c.rect, c.baseline, c.style, thresholds) # <<>>
    [] t = "sizing" -> CheckSizingAnomaly(c.rect, c.baseline, thresholds) # <<>>
    [] t = "visibility" -> CheckVisibilityAnomaly(c.style) # <<>>

\* C16: one check of one attached element reports exactly the anomalies its
\* five checks trigger, in the order overflow, clipping, positioning,
\* sizing, visibility, and each of them before the element's baseline is
\* set to the box just read.
C16_AnomaliesInFixedOrder ==
  \A c \in AllChecks :
    c.attached =>
      /\ \A i, j \in DOMAIN c.anomalies :
           i < j => Rank(c.anomalies[i].type) < Rank(c.anomalies[j].type)
      /\ \A t \in {"overflow", "clipping", "positioning", "sizing", "visibility"} :
           t \in TypesOf(c) <=> Triggered(t, c)
      /\ \A a \in AnomaliesOf(c) : a.baselineSeen \in {c.baseline, NoRect}

\* One check reported all five anomalies, on a box that had changed.
C16_Witness ==
  \E c \in AllChecks :
    /\ c.attached
    /\ Len(c.anomalies) = 5
    /\ c.baseline # NoRect
    /\ c.baseline # c.rect

\* C17: right after a periodic scan every element that has a baseline is
\* in the document: the entry of an element taken out of the document does
\* not outlive the next periodic scan.
C17_BaselinesOnlyForAttachedAfterScan ==
  (lastOp = "timer" /\ watcherRunning) =>
    \A e \in Elements : baselineMetrics[e] # NoRect => e \in attached

\* What start() and stop() write.
WatcherCore ==
  <<watcherRunning, observer, resizeObserver, intervalId,
    liveMutationObservers, liveResizeObservers, liveTimers, baselineMetrics,
    observed>>

AtMostOneLive ==
  /\ liveTimers <= 1
  /\ liveMutationObservers <= 1
  /\ liveResizeObservers <= 1
  /\ ~watcherRunning =>
       liveTimers = 0 /\ liveMutationObservers = 0 /\ liveResizeObservers = 0

StopTwiceIsStopOnce == StopOn(StopOn(LwState)) = StopOn(LwState)

\* C18: start() on a running watcher changes nothing (no second timer or
\* observer, baselines kept), a second stop() changes nothing after the
\* first, and whatever calls were made at most one timer, one mutation
\* observer and one resize observer are live, none of them when stopped.
C18_StartAndStopIdempotent ==
  [][/\ (lastOp' = "start" /\ watcherRunning) => UNCHANGED WatcherCore
     /\ AtMostOneLive'
     /\ StopTwiceIsStopOnce']_vars

\* start() was called on a running watcher whose baselines and resize
\* targets date from before the host added an element.
C18_Witness ==
  /\ lastOp = "start"
  /\ watcherRunning
  /\ observed # attached
  /\ liveTimers = 1

\* ---------------------------------------- RecoveryEngine claims, continued
\* Call c runs a custom strategy whose procedure throws or rejects.
CustomThrows(c) ==
  act[c].strategy = "custom" /\ act[c].customAction = "throws"

\* C19: when the procedure of a custom strategy throws or rejects, the
\* strategy run settles as a failure inside the engine: the execute call
\* ends with result false, it does not throw, and the failure goes through
\* the retry counter (one more while below maxRetries, else unchanged).
C19_CustomThrowIsCaughtFailure ==
  [][\A c \in Calls :
       (pc[c] = "awaiting" /\ pc'[c] # "awaiting" /\ CustomThrows(c)) =>
         /\ pc'[c] = "done"
         /\ result'[c] = "false"
         /\ retryCount' = IF retryCount < maxRetries THEN retryCount + 1
                                                      ELSE retryCount]_vars

\* A custom procedure threw below maxRetries: the call returned false and
\* the counter went up.
C19_Witness ==
  \E c \in Calls :
    /\ pc[c] = "done"
    /\ CustomThrows(c)
    /\ attempts[c] = 1
    /\ result[c] = "false"
    /\ retryCount = 1

\* The failure categories in their fixed order, and which of them an
\* error falls under.
Categories == <<"network", "script", "chunk", "401", "403", "500">>
InCategory(cat, error) ==
  LET Has(p) == \E i \in DOMAIN error.message : error.message[i] = p
  IN  CASE cat = "network" -> error.name = "NetworkError" \/ Has("fetch")
        [] cat = "script" -> error.name \in {"TypeError", "ReferenceError"}
        [] cat = "chunk" -> Has("Loading chunk") \/ Has("ChunkLoadError")
        [] cat = "401" -> Has("401") \/ Has("Unauthorized")
        [] cat = "403" -> Has("403") \/ Has("Forbidden")
        [] cat = "500" -> Has("500") \/ Has("Internal Server Error")

\* What each category suggests; the retry of the network category has no
\* maxRetries field, its count being left open.
Suggested(cat) ==
  CASE cat = "network" ->
         <<[strategy |-> "retry"], [strategy |-> "fallback"]>>
    [] cat = "script" ->
         <<[strategy |-> "retry", maxRetries |-> 1], [strategy |-> "fallback"]>>
    [] cat = "chunk" -> <<[strategy |-> "reload"]>>
    [] cat = "401" -> <<[strategy |-> "redirect", redirectUrl |-> "/login"]>>
    [] cat = "403" -> <<[strategy |-> "redirect", redirectUrl |-> "/unauthorized"]>>
    [] cat = "500" ->
         <<[strategy |-> "retry", maxRetries |-> 2], [strategy |-> "fallback"]>>

RECURSIVE SuggestedFrom(_, _)
SuggestedFrom(i, error) ==
  IF i > Len(Categories) THEN <<>>
  ELSE (IF InCategory(Categories[i], error) THEN Suggested(Categories[i])
                                           ELSE <<>>)
         \o SuggestedFrom(i + 1, error)

ExpectedSuggestions(error) ==
  IF \E i \in DOMAIN Categories : InCategory(Categories[i], error)
    THEN SuggestedFrom(1, error)
    ELSE <<[strategy |-> "retry", maxRetries |-> 1], [strategy |-> "fallback"]>>

\* The suggestion the engine gave is the one expected.
SameSuggestion(given, expected) ==
  /\ given.strategy = expected.strategy
  /\ "maxRetries" \in DOMAIN expected =>
       given.maxRetries = expected.maxRetries
  /\ expected.strategy = "redirect" => given.redirectUrl = expected.redirectUrl

\* C20: the suggestions for an error are never empty; they are the
\* suggestions of every category the error falls under, concatenated in the
\* order network, type/reference, chunk, 401, 403, 500, and the generic pair
\* retry(1), fallback exactly when it falls under none.
C20_SuggestionsByCategoryInOrder ==
  fnInput.fn = "getSmartRecoverySuggestions" =>
    LET expected == ExpectedSuggestions(fnInput.error)
    IN  /\ Len(fnOutput) > 0
        /\ Len(fnOutput) = Len(expected)
        /\ \A i \in DOMAIN expected : SameSuggestion(fnOutput[i], expected[i])

\* A TypeError whose message holds a chunk pattern and 401: three categories.
C20_Witness ==
  /\ fnInput.fn = "getSmartRecoverySuggestions"
  /\ InCategory("script", fnInput.error)
  /\ InCategory("chunk", fnInput.error)
  /\ InCategory("401", fnInput.error)
  /\ Len(fnOutput) = 4


\* The delay of the retry strategy for attempt count n.
BackoffDelay(n) == Min(1000 * (2 ^ n), 10000)

\* The maximum the claim compares n with: the action's own when it has
\* one, else the configured one.
RetryMaximum(input) ==
  IF input.action.maxRetriesGiven THEN input.action.maxRetries
  ELSE input.configMaxRetries

\* C21: the retry strategy waits min(1000 * 2^n, 10000) ms for attempt
\* count n and reports success; the delay never decreases as n grows and
\* never exceeds 10000 ms; when n is at or above the action's maximum (the
\* configured maxRetries when the action has none) it reports failure
\* without waiting.
C21_RetryBackoffAndGate ==
  fnInput.fn = "handleRetry" =>
    LET n == fnInput.action.retryCount IN
    /\ \A k \in 0..n : BackoffDelay(k) <= BackoffDelay(n)
                        /\ BackoffDelay(n) <= 10000
    /\ IF n >= RetryMaximum(fnInput)
         THEN fnOutput = [outcome |-> "false", waited |-> <<>>]
         ELSE fnOutput = [outcome |-> "true", waited |-> <<BackoffDelay(n)>>]


\* The enabled flag of the sub-check a callback belongs to.
FlagOf(callback) ==
  CASE callback = "white-page-check" -> whitePageEnabled
    [] callback = "page-break-scan"  -> pageBreakEnabled
    [] callback = "visual-healing"   -> visualHealingEnabled
    [] OTHER                         -> TRUE

\* C22: start() on a stopped engine starts exactly the sub-checks whose
\* enabled flag is set (the white-page timer, one more page-break observer,
\* one more visual-healing observer), and a sub-check never runs while its
\* flag is off, whatever the other two flags are.
C22_OnlyEnabledSubChecksRun ==
  [][/\ (~isRunning /\ isRunning')
         => /\ whitePageCheckInterval' = whitePageEnabled
            /\ mutationObservers' - mutationObservers
                 = (IF pageBreakEnabled THEN 1 ELSE 0)
            /\ resizeObservers' - resizeObservers
                 = (IF visualHealingEnabled THEN 1 ELSE 0)
     /\ Len(callbackLog') > Len(callbackLog)
         => FlagOf(callbackLog'[Len(callbackLog')])]_vars


\* ----------------------------------------------- GuardianProvider claims
\* The last min(n, BufferLimit) of the records 1..n, in report order.
LastReported(n) ==
  [i \in 1..Min(n, BufferLimit) |-> n - Min(n, BufferLimit) + i]

\* C23: errorCount is 0 at startup and n after n reportError calls, the
\* error buffer holds the last min(n, 100) reported records in report
\* order and lastError is the most recent one; likewise anomalyCount, the
\* anomaly buffer and lastAnomaly for the anomalies reported.
C23_CountsAndRollingBuffers ==
  /\ state.errorCount = errorsReported
  /\ state.errors = LastReported(errorsReported)
  /\ state.lastError = errorsReported
  /\ state.anomalyCount = anomaliesReported
  /\ state.anomalies = LastReported(anomaliesReported)
  /\ state.lastAnomaly = anomaliesReported

\* C23 witness: more errors than the buffer holds were reported, and
\* some anomalies.
C23_Witness ==
  /\ errorsReported > BufferLimit /\ anomaliesReported > 0
  /\ Len(state.errors) = BufferLimit
  /\ state.errors[1] = errorsReported - BufferLimit + 1


\* ------------------------------------------------------- selector claims
\* The matches of the well-formed selectors of a list, in list order.
RECURSIVE MatchesOfWellFormed(_)
MatchesOfWellFormed(list) ==
  IF list = <<>> THEN <<>>
  ELSE IF Malformed(Head(list)) THEN MatchesOfWellFormed(Tail(list))
  ELSE Matches(Head(list)) \o MatchesOfWellFormed(Tail(list))

\* C24: in the LayoutWatcher scan and in the AutoCorrect page-break scan a
\* malformed selector is skipped without aborting the pass: the elements
\* matched by every other selector of the list are processed in that pass.
C24_MalformedSelectorSkipped ==
  fnInput.fn \in {"getElementsToWatch", "checkForPageBreaks"}
    => fnOutput = MatchesOfWellFormed(fnInput.selectors)


\* ----------------------------------------------------- page-break claims
\* What the last scan did to element e, in order.
RECURSIVE StepsFor(_, _)
StepsFor(e, events) ==
  IF events = <<>> THEN <<>>
  ELSE (IF Head(events).element = e THEN <<Head(events).step>> ELSE <<>>)
         \o StepsFor(e, Tail(events))

\* The elements some selector of the configured list matches.
Matched == UNION {SeqRange(Matches(pageBreakSelectors[i])) :
                    i \in DOMAIN pageBreakSelectors}

\* C28: for a matched element below minHeight one page-break scan applies
\* every strategy of the configured list once, in its order, and then
\* reports one page-break-fix; an element with a negative top or left gets,
\* after that, the positioning fix and one layout-heal report.
C28_EachStrategyOnceThenOneReport ==
  \A e \in Matched :
    (~lastScan.threw /\ lastScan.boxes[e].short) =>
      StepsFor(e, lastScan.events)
        = strategies \o <<"page-break-fix">>
            \o (IF lastScan.boxes[e].mispositioned
                  THEN <<"fix-positioning", "layout-heal">> ELSE <<>>)


\* ------------------------------------------------- visual-healing claims
\* A step that is a visual-healing check.
VisualHealingStep == callbackLog' = Append(callbackLog, "visual-healing")

\* C30: a visual-healing check reports nothing to onAutoCorrect: it changes
\* the style of the resized element only, and leaves the page content, the
\* snapshot history and the provider's autoCorrectCount and lastAutoCorrect
\* as they were.
C30_VisualHealingOnlyRestyles ==
  [][VisualHealingStep =>
       /\ autoCorrectLog' = autoCorrectLog
       /\ state'.autoCorrectCount = state.autoCorrectCount
       /\ state'.lastAutoCorrect = state.lastAutoCorrect
       /\ UNCHANGED <<contentHistory, lastContentSnapshot, body, elementHTML>>
       /\ \E e \in Elements :
            \A d \in Elements \ {e} : healedStyle'[d] = healedStyle[d]]_vars

\* C30 witness: after a page-break scan reported an action, a visual-healing
\* check ran last and set style properties of an element.
C30_Witness ==
  /\ Len(callbackLog) > 1
  /\ callbackLog[Len(callbackLog)] = "visual-healing"
  /\ state.autoCorrectCount > 0
  /\ state.lastAutoCorrect = Len(autoCorrectLog)
  /\ \E e \in Elements : "zIndex" \in healedStyle[e]

\* ---------------------------------------------------------------- C31
\* The checks of element e in a run, in the order they were made.
ChecksOf(run, e) == SelectSeq(run, LAMBDA c : c.element = e)

\* A move from baseline to rect that stays within thresholds.positioning.
MoveWithinThreshold(rect, baseline, th) ==
  LET deltaX == Abs(rect.left - baseline.left)
      deltaY == Abs(rect.top - baseline.top)
  IN  th.positioning >= 0
        /\ deltaX * deltaX + deltaY * deltaY <= th.positioning * th.positioning

\* A resize from baseline to rect that stays within thresholds.overflow.
ResizeWithinThreshold(rect, baseline, th) ==
  /\ baseline.width > 0 /\ baseline.height > 0
  /\ Abs(rect.width - baseline.width) * 100 <= th.overflow * baseline.width
  /\ Abs(rect.height - baseline.height) * 100 <= th.overflow * baseline.height

Emits(c, type) == \E i \in 1..Len(c.anomalies) : c.anomalies[i].type = type

\* C31: the baseline a check of an attached element compares with is the
\* box of the previous check of that element (or nothing, after a stop or
\* for an element never measured), and after the last check of a run the
\* baseline of its element is the box that check observed; a check without
\* a baseline emits neither a positioning nor a sizing anomaly, and a check
\* whose box is within the threshold of that previous box emits none
\* either, however far the box is from the startup baseline.
C31_BaselineFollowsEachCheck ==
  [][lastOp' \in {"timer", "mutation", "resize"} =>
       /\ \A e \in Elements :
            LET cs == ChecksOf(lastChecks', e)
            IN  \A i \in 1..Len(cs) :
                  cs[i].attached =>
                    /\ cs[i].baseline \in
                         {NoRect, IF i = 1 THEN baselineMetrics[e]
                                           ELSE cs[i - 1].rect}
                    /\ cs[i].baseline = NoRect =>
                         ~Emits(cs[i], "positioning") /\ ~Emits(cs[i], "sizing")
                    /\ (cs[i].baseline # NoRect
                          /\ MoveWithinThreshold(cs[i].rect, cs[i].baseline,
                                                 thresholds)) =>
                         ~Emits(cs[i], "positioning")
                    /\ (cs[i].baseline # NoRect
                          /\ ResizeWithinThreshold(cs[i].rect, cs[i].baseline,
                                                   thresholds)) =>
                         ~Emits(cs[i], "sizing")
       /\ lastChecks' # <<>> =>
            LET c == lastChecks'[Len(lastChecks')]
            IN  c.attached => baselineMetrics'[c.element] = c.rect]_vars

\* A check of e1 against the box of its previous check, 4 px and 4 px of
\* width away, when the startup box is 8 px and 8 px of width away: no
\* positioning and no sizing anomaly although the drift from the startup
\* baseline exceeds both thresholds.
C31_Witness ==
  /\ thresholds = [positioning |-> 5, overflow |-> 10]
  /\ \E i \in 1..Len(lastChecks) :
       /\ lastChecks[i].element = "e1"
       /\ lastChecks[i].attached
       /\ lastChecks[i].baseline = Rect(4, 0, 54, 50)
       /\ lastChecks[i].rect = Rect(8, 0, 58, 50)
       /\ ~MoveWithinThreshold(lastChecks[i].rect, StartupRect, thresholds)
       /\ ~ResizeWithinThreshold(lastChecks[i].rect, StartupRect, thresholds)
       /\ lastChecks[i].anomalies = <<>>

\* ---------------------------------------------------------------- C32
\* C32: over the lifetime of one provider, whatever state updates and
\* re-renders happen, exactly one instance of each of Reporter,
\* LayoutWatcher, RecoveryEngine and AutoCorrect has been constructed, and
\* at most one telemetry flush timer is live.
C32_OneInstanceOfEachEngine ==
  /\ \A e \in Engines : instances[e] = 1
  /\ flushTimers <= 1

\* ---------------------------------------------------------------- C33
\* Call c ends in this step, having been accepted, because onRecovery threw
\* or because the strategy dispatch threw.
EndsByThrow(c) ==
  /\ pc[c] # "done" /\ pc'[c] = "done"
  /\ \E i \in 1..Len(onRecoveryLog') : onRecoveryLog'[i] = c
  /\ \/ result'[c] = "threw"
     \/ pc[c] = "awaiting" /\ PerformRecovery(act[c]).outcome = "threw"

\* C33: when an accepted execute call ends because the onRecovery callback
\* or the strategy dispatch threw, the engine is not left in Recovering, so
\* the next execute call is accepted.
C33_ThrowLeavesEngineIdle ==
  [][\A c \in Calls : EndsByThrow(c) => isRecovering' = FALSE]_vars

\* ---------------------------------------------------------------- C34
\* The step is the resumption of an execute call whose strategy gave
\* the outcome o.
ResumesWith(o) ==
  \E c \in Calls : pc[c] = "awaiting" /\ PerformRecovery(act[c]).outcome = o
                      /\ attempts'[c] >= attempts[c]
                      /\ (pc'[c] = "done" \/ onRecoveryLog' # onRecoveryLog)

\* The step changes nothing of the engine but retryCount: resetRetryCount().
OnlyCounterChanges ==
  UNCHANGED <<recEnabled, maxRetries, fallbackComponent, isRecovering, pc,
              result, act, attempts, delays, onRecoveryLog>>

\* C34: retryCount is always between 0 and config.maxRetries; a step that
\* changes it either adds one, in the resumption of an execute call whose
\* strategy failed while retryCount was below maxRetries, or sets it to 0,
\* in the resumption of an execute call whose strategy succeeded or in
\* resetRetryCount().
C34_RetryCountWithinMaximum ==
  [][/\ retryCount \in 0..maxRetries
     /\ retryCount' \in 0..maxRetries'
     /\ retryCount' # retryCount =>
          \/ /\ retryCount' = retryCount + 1
             /\ retryCount < maxRetries
             /\ ResumesWith("false")
          \/ /\ retryCount' = 0
             /\ ResumesWith("true") \/ OnlyCounterChanges]_vars

\* A failed strategy has counted the retry counter up to a positive maximum.
C34_Witness ==
  /\ maxRetries > 0
  /\ retryCount = maxRetries
  /\ \E c \in Calls : pc[c] = "done" /\ result[c] = "false" /\ attempts[c] > 0

\* ---------------------------------------------------------------- C35
\* C35: whatever the interleaving of report calls, overlapping flushes and
\* failed deliveries, the queue holds its records in the order they were
\* reported (record n is the n-th reported): no record stands behind a
\* record reported after it.
C35_QueueInReportOrder ==
  \A i \in 1..(Len(queue) - 1) : queue[i] < queue[i + 1]

\* ---------------------------------------------------------------- C36
\* C36: every action the engine hands to onAutoCorrect has type
\* page-break-fix, layout-heal or content-restore and success = true; it
\* never reports white-page-fix and never a failed action, whatever the
\* strategies list and whatever the corrections achieved.
C36_ReportsThreeKindsAlwaysSucceeded ==
  /\ Len(autoCorrectSuccess) = Len(autoCorrectLog)
  /\ \A i \in 1..Len(autoCorrectLog) :
       /\ autoCorrectLog[i] \in {"page-break-fix", "layout-heal", "content-restore"}
       /\ autoCorrectSuccess[i] = TRUE

\* With an empty strategies list, a scan found a short element left of the
\* viewport: nothing was applied to it, and page-break-fix and layout-heal
\* were reported all the same; a white-page check has restored a snapshot.
C36_Witness ==
  /\ strategies = <<>>
  /\ \E i \in 1..Len(autoCorrectLog) : autoCorrectLog[i] = "content-restore"
  /\ \E e \in Elements : lastScan.boxes[e].short /\ lastScan.boxes[e].mispositioned
  /\ \E i \in 1..(Len(autoCorrectLog) - 1) :
       /\ autoCorrectLog[i] = "page-break-fix"
       /\ autoCorrectLog[i + 1] = "layout-heal"
       /\ autoCorrectSuccess[i] /\ autoCorrectSuccess[i + 1]

\* ---------------------------------------------------------------- C37
\* Every live MutationObserver on document.body runs its callback once for
\* a DOM mutation, every live ResizeObserver once for a resized element.
ScansPerMutation == mutationObservers
ChecksPerResize == resizeObservers

\* C37: after any sequence of start() and stop() calls one DOM mutation
\* triggers at most one page-break scan and one resize of an element at most
\* one visual-healing check: observers do not accumulate over stop/start
\* cycles.
C37_ObserversDoNotAccumulate ==
  ScansPerMutation <= 1 /\ ChecksPerResize <= 1

\* ---------------------------------------------------------------- C39
\* C39: the provider's isRecovering flag is true only while the engine is
\* in Recovering; once the execute call has finished and the engine is
\* idle again, the flag is false.
C39_FlagFalseOnceEngineIdle ==
  (~isRecovering /\ \A c \in Calls : pc[c] # "awaiting") => ~state.isRecovering

\* C38: page-break correction quiesces.  After the host's one change of the
\* DOM, the engine's own writes (the display toggle of reload-component and
\* its timeout, the injected placeholder, the clone, the restored content)
\* lead to finitely many scans: from some point on no observer has records
\* queued and no timeout of reloadComponent is pending.
C38_PageBreakCorrectionQuiesces == <>[]Quiescent

\* C40: SmartBoundary makes at most maxRetries automatic resets between two
\* manual retries or changes of children, makes none while the fallback is
\* shown with retryCount at the maximum, and none of its timeouts runs after
\* unmount.
C40_RetriesBoundedAndCancelled ==
  /\ autoResets <= NetworkRetryLimit
  /\ ~firedAtMaximum
  /\ ~firedUnmounted

====
